---- MODULE Spec2Model ----
(***************************************************************************)
(* Pick & scoring engine of the March Madness spreads league backend       *)
(* (march_madness_backend/main.py).  The relational tables are sets of     *)
(* rows, times are whole hours counted in UTC from a Monday 00:00 UTC.     *)
(* A request handler is one transaction: taken in one step where requests  *)
(* come one after the other, and statement by statement under READ         *)
(* COMMITTED where two requests are in flight at once (txns).  The         *)
(* log_requests middleware counts the requests it has admitted             *)
(* (active_requests, requests).                                            *)
(***************************************************************************)
EXTENDS Integers, Sequences, FiniteSets, TLC

VARIABLES now, games, nextGameId, picks, leaderboard,
          tiebreakers, nextTbId, tiebreaker_picks, last, txns,
          users, nextUserId, active_requests, requests

vars == <<now, games, nextGameId, picks, leaderboard,
          tiebreakers, nextTbId, tiebreaker_picks, last, txns,
          users, nextUserId, active_requests, requests>>

-----------------------------------------------------------------------------
(* Bounds of the model *)

\* number of game ids the SERIAL sequence of games hands out
MaxGames == 1
\* the same, where the weekly lock is checked
LockGames == 2
\* number of tiebreaker ids the SERIAL sequence of tiebreakers hands out
MaxTiebreakers == 1
\* largest number of points an admin assigns to a tiebreaker pick
MaxPoints == 1
\* number of game ids handed out where the frame of grading is checked
FrameGames == 2
\* number of game ids handed out where two requests are in flight at once
RaceGames == 2

-----------------------------------------------------------------------------
(* Values *)

\* SQL NULL / Python None in a string column; real strings are tuples of
\* one-character strings, so this value is no string
NULL == <<"<null>">>

PUSH == <<"P", "U", "S", "H">>
TeamA == <<"A">>
TeamAStar == <<"A", " ", "*">>
TeamB == <<"B">>
TeamBStar == <<"B", " ", "*">>

\* Optional[bool] of PickSubmission.lock
None == <<>>
Some(b) == <<b>>
LockInputs == {None, Some(TRUE), Some(FALSE)}

\* the database connections that carry a request statement by statement,
\* and the record of a connection without a request
TxIds == {1, 2}
Idle == [pc |-> "idle"]

\* registered users: each has a users row and a leaderboard row (register)
Users == {1, 2}

\* the users row that register inserts for the registered users above
UserNames == <<"ann", "bob">>
UserRow(u) == [id |-> u, username |-> UserNames[u], admin |-> FALSE]
\* users.id SERIAL: the next id after the registered users
FirstFreeUserId == 3

\* requests that may be inside the log_requests middleware at once
MaxRequests == 9
ReqIds == 1..MaxRequests

LockUsers == {1}

\* hours per day and days per week of the timedelta arithmetic
HoursPerDay == 24
DaysPerWeek == 7
\* datetime.weekday() of Tuesday
Tuesday == 1
\* hour of day at which a week starts
WeekStartHour == 3
\* UTC minus America/New_York wall clock, in hours (EST)
NYOffset == 5
\* timedelta(days=365) in hours
MaxFutureHours == 8760

\* UTC minus America/New_York wall clock while daylight saving time is on (EDT)
DstOffset == 4
\* the weeks, counted from week 0, on whose Sunday the New York clocks go
\* forward and back
DstBeginWeek == 4
DstEndWeek == 6
\* hour of the wall clock at which the clocks change, and weekday() of Sunday
DstChangeHour == 2
Sunday == 6
\* the instants of the two changes: Sunday 02:00 EST and Sunday 02:00 EDT
DstBegin ==
  (DstBeginWeek * DaysPerWeek + Sunday) * HoursPerDay + DstChangeHour + NYOffset
DstEnd ==
  (DstEndWeek * DaysPerWeek + Sunday) * HoursPerDay + DstChangeHour + DstOffset

\* astimezone(America/New_York) on hour counts: the wall clock of an instant
ToNY(t) == IF t >= DstBegin /\ t < DstEnd THEN t - DstOffset ELSE t - NYOffset
\* astimezone(timezone.utc) of a wall-clock time (fold = 0: a wall time that
\* occurs twice is the first one, one that is skipped counts as EST)
FromNY(l) ==
  IF l >= DstBegin - NYOffset + 1 /\ l < DstEnd - DstOffset
    THEN l + DstOffset ELSE l + NYOffset

\* instants of the model, in hours since the Monday 00:00 UTC of week 0:
\* week 1 starts on Tuesday 03:00 New York = hour 200, week 2 at hour 368
Week1Start == FromNY((DaysPerWeek + Tuesday) * HoursPerDay + WeekStartHour)
Week1Mid == Week1Start + 100
Week2Start == Week1Start + DaysPerWeek * HoursPerDay
Clock0 == Week1Start - 10
ClockPoints == {Clock0, Week1Start, Week1Mid}
GameDates == {Week1Start, Week1Mid, Week2Start}
ScoreDates == {Week1Start, Week1Mid}

-----------------------------------------------------------------------------
(* Pure helpers *)

\* TRIM(TRAILING ' *' FROM s): drop the longest suffix made of ' ' and '*'
RECURSIVE TrimTrailing(_)
TrimTrailing(s) ==
  IF s = NULL THEN NULL
  ELSE IF Len(s) > 0 /\ s[Len(s)] \in {" ", "*"}
       THEN TrimTrailing(SubSeq(s, 1, Len(s) - 1))
       ELSE s

\* SQL '=' : NULL on either side is not TRUE
SqlEq(a, b) == a # NULL /\ b # NULL /\ a = b

\* CasePoints with the flat scoring of the earlier variants: a correct pick
\* scores 1 whether locked or not
CasePointsFlat(picked_team, lock, winning_team) ==
  IF SqlEq(TrimTrailing(picked_team), TrimTrailing(winning_team)) THEN 1 ELSE 0

\* the CASE expression of update_game_scores for one pick row
CasePoints(picked_team, lock, winning_team) ==
  IF SqlEq(TrimTrailing(picked_team), TrimTrailing(winning_team)) /\ lock = TRUE
    THEN 2
  ELSE IF SqlEq(TrimTrailing(picked_team), TrimTrailing(winning_team)) /\ lock = FALSE
    THEN 1
  ELSE 0

\* COALESCE(SUM(points_awarded), 0) over a set of rows
RECURSIVE SumPoints(_)
SumPoints(rows) ==
  IF rows = {} THEN 0
  ELSE LET r == CHOOSE x \in rows : TRUE
       IN r.points_awarded + SumPoints(rows \ {r})

\* get_game_week_bounds without the rule for a Tuesday before 03:00
get_game_week_bounds_same_day(game_date) ==
  LET game_date_ny == ToNY(game_date)
      weekday == (game_date_ny \div HoursPerDay) % DaysPerWeek
      days_since_tuesday == (weekday - Tuesday) % DaysPerWeek
      moved == game_date_ny - days_since_tuesday * HoursPerDay
      week_start_ny == (moved \div HoursPerDay) * HoursPerDay + WeekStartHour
      week_end_ny == week_start_ny + DaysPerWeek * HoursPerDay
  IN <<FromNY(week_start_ny), FromNY(week_end_ny)>>

get_game_week_bounds(game_date) ==
  LET game_date_ny == ToNY(game_date)
      weekday == (game_date_ny \div HoursPerDay) % DaysPerWeek
      hour == game_date_ny % HoursPerDay
      days_since_tuesday ==
        IF weekday = Tuesday /\ hour < WeekStartHour
          THEN DaysPerWeek
          ELSE (weekday - Tuesday) % DaysPerWeek
      moved == game_date_ny - days_since_tuesday * HoursPerDay
      week_start_ny == (moved \div HoursPerDay) * HoursPerDay + WeekStartHour
      week_end_ny == week_start_ny + DaysPerWeek * HoursPerDay
  IN <<FromNY(week_start_ny), FromNY(week_end_ny)>>

\* SameWeek that compares the two dates instead of their week windows
SameDate(d1, d2) == d1 = d2

\* the same-week test of submit_pick: the two [start, end) windows overlap
SameWeek(d1, d2) ==
  LET t == get_game_week_bounds(d1)
      l == get_game_week_bounds(d2)
  IN ~(t[1] >= l[2] \/ t[2] <= l[1])

-----------------------------------------------------------------------------
(* The database seen by one transaction *)

DB == [games |-> games, picks |-> picks, leaderboard |-> leaderboard,
       tiebreakers |-> tiebreakers, tiebreaker_picks |-> tiebreaker_picks]

GameRows(db, game_id) == {g \in db.games : g.id = game_id}
PickRows(db, user_id, game_id) ==
  {p \in db.picks : p.user_id = user_id /\ p.game_id = game_id}
TheRow(rows) == CHOOSE r \in rows : TRUE

\* outcome of a handler body: HTTP status, whether it left the `with` block
\* by an exception, and the transaction's working copy of the tables
Ok(db) == [status |-> 200, raised |-> FALSE, db |-> db]
Raise(code, db) == [status |-> code, raised |-> TRUE, db |-> db]

\* a cursor that keeps what was written before an exception
get_db_cursor_no_rollback(pre, r) == r.db

\* a cursor that rolls back on the handler's own HTTP errors only and
\* commits when any other exception leaves the block
get_db_cursor_rollback_http(pre, r) ==
  IF r.raised /\ r.status < 500 THEN pre ELSE r.db

\* get_db_cursor(commit=True): commit on normal exit, rollback on exception
get_db_cursor(pre, r) == IF r.raised THEN pre ELSE r.db

\* update_game_scores whose UPDATE has lost its WHERE game_id = %s: the picks
\* of every game are rescored
update_game_scores_all(db, game_id, winning_team) ==
  LET rescored(p) ==
        IF winning_team = PUSH
          THEN [p EXCEPT !.points_awarded = 0]
          ELSE [p EXCEPT !.points_awarded =
                  CasePoints(p.picked_team, p.lock, winning_team)]
  IN [db |-> [db EXCEPT !.picks = {rescored(p) : p \in db.picks}],
      affected_users |-> {p.user_id : p \in {q \in db.picks : q.game_id = game_id}}]

\* update_game_scores whose PUSH branch leaves the points as they were
update_game_scores_keep(db, game_id, winning_team) ==
  LET rescored(p) ==
        IF p.game_id # game_id \/ winning_team = PUSH THEN p
        ELSE [p EXCEPT !.points_awarded =
                CasePoints(p.picked_team, p.lock, winning_team)]
  IN [db |-> [db EXCEPT !.picks = {rescored(p) : p \in db.picks}],
      affected_users |-> {p.user_id : p \in {q \in db.picks : q.game_id = game_id}}]

update_game_scores(db, game_id, winning_team) ==
  LET rescored(p) ==
        IF p.game_id # game_id THEN p
        ELSE IF winning_team = PUSH
          THEN [p EXCEPT !.points_awarded = 0]
          ELSE [p EXCEPT !.points_awarded =
                  CasePoints(p.picked_team, p.lock, winning_team)]
  IN [db |-> [db EXCEPT !.picks = {rescored(p) : p \in db.picks}],
      affected_users |-> {p.user_id : p \in {q \in db.picks : q.game_id = game_id}}]

\* a leaderboard update by increments: the points of the user's picks are
\* added to the total the row already holds
update_leaderboard_totals_delta(db, affected_users) ==
  LET total(u) == SumPoints({p \in db.picks : p.user_id = u})
                  + SumPoints({t \in db.tiebreaker_picks : t.user_id = u})
  IN [db EXCEPT !.leaderboard =
        {IF l.user_id \in affected_users
           THEN [l EXCEPT !.total_points = l.total_points + total(l.user_id)]
           ELSE l : l \in db.leaderboard}]

update_leaderboard_totals(db, affected_users) ==
  LET total(u) == SumPoints({p \in db.picks : p.user_id = u})
                  + SumPoints({t \in db.tiebreaker_picks : t.user_id = u})
  IN [db EXCEPT !.leaderboard =
        {IF l.user_id \in affected_users
           THEN [l EXCEPT !.total_points = total(l.user_id)]
           ELSE l : l \in db.leaderboard}]

-----------------------------------------------------------------------------
(* submit_pick *)

\* a game counts as started only after its game_date
started_after(t, game_date) == t > game_date

\* game_has_started = current_time >= game_date
game_has_started_at(t, game_date) == t >= game_date

\* a locked game counts as started only after its game_date
lock_started_after(t, lock_game_date) == t > lock_game_date

\* current_time >= lock_game_date, for a locked game of the target's week
lock_has_started_at(t, lock_game_date) == t >= lock_game_date

\* existing_locks in ascending game_id order: the user's locked picks joined
\* with the date of their game
RECURSIVE LockSeq(_)
LockSeq(rows) ==
  IF rows = {} THEN <<>>
  ELSE LET r == CHOOSE x \in rows : \A y \in rows : x.game_id <= y.game_id
       IN <<r>> \o LockSeq(rows \ {r})

existing_locks_of(db, user_id) ==
  LockSeq({[game_id |-> p.game_id, game_date |-> g.game_date] :
             <<p, g>> \in {<<p, g>> \in db.picks \X db.games :
                             p.game_id = g.id /\ p.user_id = user_id /\ p.lock = TRUE}})

\* the for-loop over existing_locks when lock = true is requested: raise on
\* a started lock of the target's week, unlock a not-started one
RECURSIVE LockLoop(_, _, _, _, _, _, _)
LockLoop(db, locks, i, t, user_id, game_id, game_date) ==
  IF i > Len(locks) THEN [raised |-> FALSE, db |-> db]
  ELSE IF locks[i].game_id # game_id /\ SameWeek(game_date, locks[i].game_date)
    THEN IF lock_has_started_at(t, locks[i].game_date)
           THEN [raised |-> TRUE, db |-> db]
           ELSE LockLoop(
                  [db EXCEPT !.picks =
                     {IF p.user_id = user_id /\ p.game_id = locks[i].game_id
                        THEN [p EXCEPT !.lock = FALSE] ELSE p : p \in db.picks}],
                  locks, i + 1, t, user_id, game_id, game_date)
    ELSE LockLoop(db, locks, i + 1, t, user_id, game_id, game_date)

submit_pick(db, t, user_id, game_id, picked_team, lock) ==
  IF GameRows(db, game_id) = {} THEN Raise(404, db)
  ELSE
    LET game == TheRow(GameRows(db, game_id))
        existing == PickRows(db, user_id, game_id)
        game_has_started == game_has_started_at(t, game.game_date)
        locked ==
          IF lock = Some(TRUE)
            THEN LockLoop(db, existing_locks_of(db, user_id), 1, t,
                          user_id, game_id, game.game_date)
          ELSE IF lock = Some(FALSE) /\ existing # {} /\ TheRow(existing).lock
                  /\ game_has_started
            THEN [raised |-> TRUE, db |-> db]
          ELSE [raised |-> FALSE, db |-> db]
        cur == locked.db
    IN IF locked.raised THEN Raise(400, cur)
       ELSE IF game_has_started THEN
         IF existing = {} THEN Raise(400, cur)
         ELSE IF lock # None /\ lock[1] # TheRow(existing).lock THEN Raise(400, cur)
         ELSE IF picked_team # TheRow(existing).picked_team THEN Raise(400, cur)
         ELSE Ok(cur)
       ELSE IF existing # {} THEN
         LET lock_value == IF lock # None THEN lock[1] ELSE TheRow(existing).lock
         IN Ok([cur EXCEPT !.picks =
                  {IF p.user_id = user_id /\ p.game_id = game_id
                     THEN [p EXCEPT !.picked_team = picked_team, !.lock = lock_value]
                     ELSE p : p \in cur.picks}])
       ELSE
         LET lock_value == IF lock # None THEN lock[1] ELSE FALSE
         IN Ok([cur EXCEPT !.picks = cur.picks \cup
                  {[user_id |-> user_id, game_id |-> game_id,
                    picked_team |-> picked_team, lock |-> lock_value,
                    points_awarded |-> 0]}])

-----------------------------------------------------------------------------
(* grading and admin handlers *)

\* `except Exception` of a handler without `except HTTPException: raise`
\* turns every HTTPException raised in its body into a 500
AsInternal(r) == IF r.raised THEN [r EXCEPT !.status = 500] ELSE r

update_score(db, game_id, winning_team) ==
  AsInternal(
    IF GameRows(db, game_id) = {} THEN Raise(404, db)
    ELSE
      LET db1 == [db EXCEPT !.games =
                    {IF g.id = game_id THEN [g EXCEPT !.winning_team = winning_team]
                       ELSE g : g \in db.games}]
          scored == update_game_scores(db1, game_id, winning_team)
      IN Ok(update_leaderboard_totals(scored.db, scored.affected_users)))

update_game(db, t, game_id, game) ==
  AsInternal(
    IF GameRows(db, game_id) = {} THEN Raise(404, db)
    ELSE
      LET existing_game == TheRow(GameRows(db, game_id))
          date_changed == game.game_date # existing_game.game_date
      IN IF date_changed /\ game.game_date > t + MaxFutureHours THEN Raise(400, db)
         ELSE
           LET db1 == [db EXCEPT !.games =
                         {IF g.id = game_id
                            THEN [id |-> g.id, home_team |-> game.home_team,
                                  away_team |-> game.away_team, spread |-> game.spread,
                                  game_date |-> game.game_date,
                                  winning_team |-> game.winning_team]
                            ELSE g : g \in db.games}]
           IN IF game.winning_team # existing_game.winning_team
                THEN LET scored == update_game_scores(db1, game_id, game.winning_team)
                     IN Ok(update_leaderboard_totals(scored.db, scored.affected_users))
                ELSE Ok(db1))

delete_game(db, game_id) ==
  IF GameRows(db, game_id) = {} THEN Raise(404, db)
  ELSE
    LET db1 == [db EXCEPT !.games = {g \in db.games : g.id # game_id},
                          !.picks = {p \in db.picks : p.game_id # game_id}]
    IN Ok([db1 EXCEPT !.leaderboard =
             {[l EXCEPT !.total_points =
                 SumPoints({p \in db1.picks : p.user_id = l.user_id})]
                : l \in db1.leaderboard}])

delete_tiebreaker(db, tiebreaker_id) ==
  AsInternal(
    IF {b \in db.tiebreakers : b.id = tiebreaker_id} = {} THEN Raise(404, db)
    ELSE
      LET db1 == [db EXCEPT
                    !.tiebreakers = {b \in db.tiebreakers : b.id # tiebreaker_id},
                    !.tiebreaker_picks =
                      {x \in db.tiebreaker_picks : x.tiebreaker_id # tiebreaker_id}]
      IN Ok([db1 EXCEPT !.leaderboard =
               {[l EXCEPT !.total_points =
                   SumPoints({p \in db1.picks : p.user_id = l.user_id})
                   + SumPoints({x \in db1.tiebreaker_picks : x.user_id = l.user_id})]
                  : l \in db1.leaderboard}]))

create_tiebreaker_pick(db, t, user_id, tiebreaker_id, answer) ==
  AsInternal(
    LET open == {b \in db.tiebreakers :
                   b.id = tiebreaker_id /\ b.is_active = TRUE /\ b.answer = NULL}
        mine == {x \in db.tiebreaker_picks :
                   x.user_id = user_id /\ x.tiebreaker_id = tiebreaker_id}
    IN IF open = {} THEN Raise(404, db)
       ELSE IF t >= TheRow(open).start_time THEN Raise(400, db)
       ELSE IF mine # {}
         THEN Ok([db EXCEPT !.tiebreaker_picks =
                    {IF x \in mine THEN [x EXCEPT !.answer = answer] ELSE x
                       : x \in db.tiebreaker_picks}])
         ELSE Ok([db EXCEPT !.tiebreaker_picks = db.tiebreaker_picks \cup
                    {[user_id |-> user_id, tiebreaker_id |-> tiebreaker_id,
                      answer |-> answer, points_awarded |-> 0]}]))

\* update_tiebreaker_points whose UPDATE has lost its user_id = %s: the
\* pick of every user on the tiebreaker gets the points
update_tiebreaker_points_all(db, user_id, tiebreaker_id, points) ==
  AsInternal(
    LET mine == {x \in db.tiebreaker_picks :
                   x.user_id = user_id /\ x.tiebreaker_id = tiebreaker_id}
    IN IF mine = {} THEN Raise(404, db)
       ELSE Ok(update_leaderboard_totals(
                 [db EXCEPT !.tiebreaker_picks =
                    {IF x.tiebreaker_id = tiebreaker_id
                       THEN [x EXCEPT !.points_awarded = points] ELSE x
                       : x \in db.tiebreaker_picks}], {user_id})))

update_tiebreaker_points(db, user_id, tiebreaker_id, points) ==
  AsInternal(
    LET mine == {x \in db.tiebreaker_picks :
                   x.user_id = user_id /\ x.tiebreaker_id = tiebreaker_id}
    IN IF mine = {} THEN Raise(404, db)
       ELSE Ok(update_leaderboard_totals(
                 [db EXCEPT !.tiebreaker_picks =
                    {IF x \in mine THEN [x EXCEPT !.points_awarded = points] ELSE x
                       : x \in db.tiebreaker_picks}], {user_id})))

-----------------------------------------------------------------------------
(* Requests: one atomic transaction each *)

Commit(op, args, r) ==
  LET db == get_db_cursor(DB, r)
  IN /\ games' = db.games
     /\ picks' = db.picks
     /\ leaderboard' = db.leaderboard
     /\ tiebreakers' = db.tiebreakers
     /\ tiebreaker_picks' = db.tiebreaker_picks
     /\ last' = [op |-> op, args |-> args, status |-> r.status]

\* the clock reaches the next instant of interest
Tick ==
  /\ \E t \in ClockPoints :
       /\ t > now
       /\ \A t2 \in ClockPoints : t2 > now => t <= t2
       /\ now' = t
  /\ last' = [op |-> "tick", args |-> <<>>, status |-> 0]
  /\ UNCHANGED <<games, nextGameId, picks, leaderboard, tiebreakers, nextTbId,
                 tiebreaker_picks, txns,
                 users, nextUserId, active_requests, requests>>

CreateGame(game, maxId) ==
  /\ nextGameId <= maxId
  /\ IF game.game_date <= now \/ game.game_date > now + MaxFutureHours
       THEN /\ last' = [op |-> "create_game", args |-> <<>>, status |-> 400]
            /\ UNCHANGED <<games, nextGameId>>
       ELSE /\ games' = games \cup
                 {[id |-> nextGameId, home_team |-> game.home_team,
                   away_team |-> game.away_team, spread |-> game.spread,
                   game_date |-> game.game_date, winning_team |-> NULL]}
            /\ nextGameId' = nextGameId + 1
            /\ last' = [op |-> "create_game", args |-> <<>>, status |-> 200]
  /\ UNCHANGED <<now, picks, leaderboard, tiebreakers, nextTbId, tiebreaker_picks,
                 txns,
                 users, nextUserId, active_requests, requests>>

SubmitPick(user_id, game_id, picked_team, lock) ==
  /\ Commit("submit_pick", <<user_id, game_id, lock>>,
            submit_pick(DB, now, user_id, game_id, picked_team, lock))
  /\ UNCHANGED <<now, nextGameId, nextTbId, txns,
                 users, nextUserId, active_requests, requests>>

\* whether an /update_score repeats the request before it: the same game
\* and winning_team, right after its success
Repeats(game_id, winning_team) ==
  /\ last.op = "update_score"
  /\ last.status = 200
  /\ last.args[1] = game_id
  /\ last.args[2] = winning_team

\* the third logged argument is Repeats
UpdateScore(game_id, winning_team) ==
  /\ Commit("update_score", <<game_id, winning_team, Repeats(game_id, winning_team)>>,
            update_score(DB, game_id, winning_team))
  /\ UNCHANGED <<now, nextGameId, nextTbId, txns,
                 users, nextUserId, active_requests, requests>>

UpdateGame(game_id, game) ==
  /\ Commit("update_game", <<game_id>>, update_game(DB, now, game_id, game))
  /\ UNCHANGED <<now, nextGameId, nextTbId, txns,
                 users, nextUserId, active_requests, requests>>

DeleteGame(game_id) ==
  /\ Commit("delete_game", <<game_id>>, delete_game(DB, game_id))
  /\ UNCHANGED <<now, nextGameId, nextTbId, txns,
                 users, nextUserId, active_requests, requests>>

CreateTiebreaker(start_time, maxId) ==
  /\ nextTbId <= maxId
  /\ IF start_time <= now \/ start_time > now + MaxFutureHours
       THEN /\ last' = [op |-> "create_tiebreaker", args |-> <<>>, status |-> 400]
            /\ UNCHANGED <<tiebreakers, nextTbId>>
       ELSE /\ tiebreakers' = tiebreakers \cup
                 {[id |-> nextTbId, start_time |-> start_time, answer |-> NULL,
                   is_active |-> TRUE]}
            /\ nextTbId' = nextTbId + 1
            /\ last' = [op |-> "create_tiebreaker", args |-> <<>>, status |-> 200]
  /\ UNCHANGED <<now, games, nextGameId, picks, leaderboard, tiebreaker_picks,
                 txns,
                 users, nextUserId, active_requests, requests>>

CreateTiebreakerPick(user_id, tiebreaker_id, answer) ==
  /\ Commit("create_tiebreaker_pick", <<user_id, tiebreaker_id>>,
            create_tiebreaker_pick(DB, now, user_id, tiebreaker_id, answer))
  /\ UNCHANGED <<now, nextGameId, nextTbId, txns,
                 users, nextUserId, active_requests, requests>>

UpdateTiebreakerPoints(user_id, tiebreaker_id, points) ==
  /\ Commit("update_tiebreaker_points", <<user_id, tiebreaker_id>>,
            update_tiebreaker_points(DB, user_id, tiebreaker_id, points))
  /\ UNCHANGED <<now, nextGameId, nextTbId, txns,
                 users, nextUserId, active_requests, requests>>

DeleteTiebreaker(tiebreaker_id) ==
  /\ Commit("delete_tiebreaker", <<tiebreaker_id>>, delete_tiebreaker(DB, tiebreaker_id))
  /\ UNCHANGED <<now, nextGameId, nextTbId, txns,
                 users, nextUserId, active_requests, requests>>

-----------------------------------------------------------------------------
(* Requests statement by statement: two connections under READ COMMITTED.  *)
(* A statement reads the committed rows and the rows its own transaction   *)
(* has written; a row written by a transaction in flight is locked, and a  *)
(* statement of another transaction that writes it waits for the end of    *)
(* the first.                                                              *)

GameKey(g) == g.id
PickKey(p) == <<p.user_id, p.game_id>>
BoardKey(l) == l.user_id

\* committed rows with the written rows in place of those of the same key
OverlayGames(committed, written) ==
  {r \in committed : \A w \in written : GameKey(w) # GameKey(r)} \cup written

OverlayPicks(committed, written) ==
  {r \in committed : \A w \in written : PickKey(w) # PickKey(r)} \cup written

OverlayBoard(committed, written) ==
  {r \in committed : \A w \in written : BoardKey(w) # BoardKey(r)} \cup written

\* a request in flight: its inputs, what its statements have fetched so far
\* and the rows it has written
NewTx(op, user_id, game_id, picked_team, lock, winning_team, game) ==
  [pc |-> "", op |-> op, user_id |-> user_id, game_id |-> game_id,
   picked_team |-> picked_team, lock |-> lock, winning_team |-> winning_team,
   game |-> game, existing |-> {}, current_time |-> 0, locks |-> <<>>, i |-> 1,
   affected |-> <<>>, pending |-> 0,
   w_games |-> {}, w_picks |-> {}, w_lb |-> {}]

\* the tables as the statements of tx see them
View(tx) ==
  [DB EXCEPT !.games = OverlayGames(games, tx.w_games),
             !.picks = OverlayPicks(picks, tx.w_picks),
             !.leaderboard = OverlayBoard(leaderboard, tx.w_lb)]

InFlight(y) == txns[y].pc # "idle"
AllIdle == \A y \in TxIds : ~InFlight(y)

GameLockedByOther(x, k) ==
  \E y \in TxIds \ {x} : InFlight(y) /\ \E w \in txns[y].w_games : GameKey(w) = k
PickLockedByOther(x, k) ==
  \E y \in TxIds \ {x} : InFlight(y) /\ \E w \in txns[y].w_picks : PickKey(w) = k
BoardLockedByOther(x, k) ==
  \E y \in TxIds \ {x} : InFlight(y) /\ \E w \in txns[y].w_lb : BoardKey(w) = k

\* number of rows the request has written
Wrote(tx) ==
  Cardinality(tx.w_games) + Cardinality(tx.w_picks) + Cardinality(tx.w_lb)

\* the logged arguments of a request in flight, as those of the request taken
\* in one step, followed by Wrote
LogArgs(tx) ==
  IF tx.op = "submit_pick"
    THEN <<tx.user_id, tx.game_id, tx.lock, Wrote(tx)>>
    ELSE <<tx.game_id, tx.winning_team, Repeats(tx.game_id, tx.winning_team), Wrote(tx)>>

\* the request leaves its `with get_db_cursor(commit=True)` block
TxEnd(x, tx, r) ==
  LET db == get_db_cursor(DB, r)
  IN /\ games' = db.games
     /\ picks' = db.picks
     /\ leaderboard' = db.leaderboard
     /\ tiebreakers' = db.tiebreakers
     /\ tiebreaker_picks' = db.tiebreaker_picks
     /\ last' = [op |-> tx.op, args |-> LogArgs(tx), status |-> r.status]
     /\ txns' = [txns EXCEPT ![x] = Idle]
     /\ UNCHANGED <<now, nextGameId, nextTbId,
                    users, nextUserId, active_requests, requests>>

\* the request goes on to its next statement
TxGoes(x, tx) ==
  /\ txns' = [txns EXCEPT ![x] = tx]
  /\ UNCHANGED <<now, games, nextGameId, picks, leaderboard, tiebreakers, nextTbId,
                 tiebreaker_picks, last,
                 users, nextUserId, active_requests, requests>>

\* what the `except` clauses of the handler make of an exception
Caught(tx, r) == IF tx.op = "submit_pick" THEN r ELSE AsInternal(r)

\* a statement of the request fails in the database (statement_timeout, a
\* lost connection): psycopg2 raises, the handler answers 500
StatementFails(x) ==
  /\ InFlight(x)
  /\ TxEnd(x, txns[x], Raise(500, View(txns[x])))

\* conn.commit() at the end of the `with` block
CommitTx(x) ==
  /\ txns[x].pc = "commit"
  /\ TxEnd(x, txns[x], Ok(View(txns[x])))

(* submit_pick, statement by statement *)

\* the for-loop over existing_locks from position i up to its next
\* statement: a raise, the UPDATE that unlocks locks[i], or the end
RECURSIVE LoopScan(_, _)
LoopScan(tx, i) ==
  IF i > Len(tx.locks) THEN [kind |-> "done", i |-> i]
  ELSE IF /\ tx.locks[i].game_id # tx.game_id
          /\ SameWeek(tx.game.game_date, tx.locks[i].game_date)
    THEN IF lock_has_started_at(tx.current_time, tx.locks[i].game_date)
           THEN [kind |-> "raise", i |-> i]
           ELSE [kind |-> "unlock", i |-> i]
    ELSE LoopScan(tx, i + 1)

\* the handler from position i of the lock loop up to its next statement
PickProceeds(x, tx, i) ==
  LET scan == IF tx.lock = Some(TRUE) THEN LoopScan(tx, i)
              ELSE [kind |-> "done", i |-> i]
      game_has_started == game_has_started_at(tx.current_time, tx.game.game_date)
      r400 == Caught(tx, Raise(400, View(tx)))
  IN IF scan.kind = "raise" THEN TxEnd(x, tx, r400)
     ELSE IF scan.kind = "unlock"
       THEN TxGoes(x, [tx EXCEPT !.pc = "unlock", !.i = scan.i])
     ELSE IF /\ tx.lock = Some(FALSE) /\ tx.existing # {}
             /\ TheRow(tx.existing).lock /\ game_has_started
       THEN TxEnd(x, tx, r400)
     ELSE IF game_has_started THEN
       IF tx.existing = {} THEN TxEnd(x, tx, r400)
       ELSE IF tx.lock # None /\ tx.lock[1] # TheRow(tx.existing).lock
         THEN TxEnd(x, tx, r400)
       ELSE IF tx.picked_team # TheRow(tx.existing).picked_team
         THEN TxEnd(x, tx, r400)
       ELSE TxGoes(x, [tx EXCEPT !.pc = "commit"])
     ELSE TxGoes(x, [tx EXCEPT !.pc = "write"])

\* the request arrives and runs SELECT * FROM games WHERE id = %s
BeginSubmitPick(x, user_id, game_id, picked_team, lock) ==
  /\ ~InFlight(x)
  /\ LET rows == GameRows(DB, game_id)
         tx == NewTx("submit_pick", user_id, game_id, picked_team, lock, NULL,
                     IF rows = {} THEN NULL ELSE TheRow(rows))
     IN IF rows = {}
          THEN TxEnd(x, tx, Caught(tx, Raise(404, DB)))
          ELSE TxGoes(x, [tx EXCEPT !.pc = "select_pick"])

\* SELECT * FROM picks WHERE user_id = %s AND game_id = %s, and the reading
\* of the clock
SelectPick(x) ==
  /\ txns[x].pc = "select_pick"
  /\ LET tx == [txns[x] EXCEPT
                  !.existing = PickRows(View(txns[x]), txns[x].user_id, txns[x].game_id),
                  !.current_time = now]
     IN IF tx.lock # None
          THEN TxGoes(x, [tx EXCEPT !.pc = "select_locks"])
          ELSE PickProceeds(x, tx, 1)

\* SELECT p.*, g.game_date FROM picks p JOIN games g ... AND p.lock = TRUE
SelectLocks(x) ==
  /\ txns[x].pc = "select_locks"
  /\ LET tx == [txns[x] EXCEPT
                  !.locks = existing_locks_of(View(txns[x]), txns[x].user_id)]
     IN PickProceeds(x, tx, 1)

\* UPDATE picks SET lock = FALSE WHERE user_id = %s AND game_id = %s
UnlockPick(x) ==
  /\ txns[x].pc = "unlock"
  /\ LET tx == txns[x]
         k == <<tx.user_id, tx.locks[tx.i].game_id>>
         rows == {p \in View(tx).picks : PickKey(p) = k}
     IN /\ ~PickLockedByOther(x, k)
        /\ PickProceeds(x,
              [tx EXCEPT !.w_picks =
                 OverlayPicks(tx.w_picks, {[p EXCEPT !.lock = FALSE] : p \in rows})],
              tx.i + 1)

\* UPDATE picks SET picked_team = %s, lock = %s ..., or INSERT INTO picks
WritePick(x) ==
  /\ txns[x].pc = "write"
  /\ LET tx == txns[x]
         k == <<tx.user_id, tx.game_id>>
         rows == {p \in View(tx).picks : PickKey(p) = k}
     IN /\ ~PickLockedByOther(x, k)
        /\ IF tx.existing # {}
             THEN LET lock_value == IF tx.lock # None THEN tx.lock[1]
                                    ELSE TheRow(tx.existing).lock
                  IN TxGoes(x, [tx EXCEPT !.pc = "commit", !.w_picks =
                       OverlayPicks(tx.w_picks,
                         {[p EXCEPT !.picked_team = tx.picked_team, !.lock = lock_value]
                            : p \in rows})])
           ELSE IF rows # {}
             THEN \* UNIQUE(user_id, game_id) is violated
                  TxEnd(x, tx, Raise(500, View(tx)))
           ELSE LET lock_value == IF tx.lock # None THEN tx.lock[1] ELSE FALSE
                IN TxGoes(x, [tx EXCEPT !.pc = "commit", !.w_picks = tx.w_picks \cup
                     {[user_id |-> tx.user_id, game_id |-> tx.game_id,
                       picked_team |-> tx.picked_team, lock |-> lock_value,
                       points_awarded |-> 0]}])

(* update_score, statement by statement *)

\* list(set(pick["user_id"] for pick in affected_picks)), in ascending order
RECURSIVE UserSeq(_)
UserSeq(us) ==
  IF us = {} THEN <<>>
  ELSE LET u == CHOOSE x \in us : \A y \in us : x <= y
       IN <<u>> \o UserSeq(us \ {u})

\* the request arrives and runs SELECT * FROM games WHERE id = %s
BeginUpdateScore(x, game_id, winning_team) ==
  /\ ~InFlight(x)
  /\ LET rows == GameRows(DB, game_id)
         tx == NewTx("update_score", 0, game_id, NULL, None, winning_team,
                     IF rows = {} THEN NULL ELSE TheRow(rows))
     IN IF rows = {}
          THEN TxEnd(x, tx, Caught(tx, Raise(404, DB)))
          ELSE TxGoes(x, [tx EXCEPT !.pc = "update_game_row"])

\* UPDATE games SET winning_team = %s WHERE id = %s
UpdateGameRow(x) ==
  /\ txns[x].pc = "update_game_row"
  /\ LET tx == txns[x]
         rows == GameRows(View(tx), tx.game_id)
     IN /\ ~GameLockedByOther(x, tx.game_id)
        /\ TxGoes(x, [tx EXCEPT !.pc = "update_picks", !.w_games =
              OverlayGames(tx.w_games,
                {[g EXCEPT !.winning_team = tx.winning_team] : g \in rows})])

\* update_game_scores: UPDATE picks SET points_awarded = ... WHERE game_id = %s
UpdatePicks(x) ==
  /\ txns[x].pc = "update_picks"
  /\ LET tx == txns[x]
         scored == update_game_scores(View(tx), tx.game_id, tx.winning_team)
         rows == {p \in scored.db.picks : p.game_id = tx.game_id}
         affected == UserSeq(scored.affected_users)
     IN /\ \A p \in rows : ~PickLockedByOther(x, PickKey(p))
        /\ TxGoes(x, [tx EXCEPT
              !.pc = IF affected = <<>> THEN "commit" ELSE "update_lb",
              !.affected = affected, !.i = 1,
              !.w_picks = OverlayPicks(tx.w_picks, rows)])

\* the leaderboard row of user_id after update_leaderboard_totals' UPDATE,
\* with the sums computed on the rows the statement sees
BoardRow(tx, user_id) ==
  {l \in update_leaderboard_totals(View(tx), {user_id}).leaderboard :
     l.user_id = user_id}

\* after the UPDATE of the leaderboard row of affected[i]
BoardProceeds(x, tx) ==
  TxGoes(x, [tx EXCEPT !.i = tx.i + 1,
               !.pc = IF tx.i + 1 > Len(tx.affected) THEN "commit" ELSE "update_lb"])

\* update_leaderboard_totals: UPDATE leaderboard SET total_points = (SELECT
\* ...) + (SELECT ...) WHERE user_id = %s.  When another transaction holds
\* the row, the statement has taken its sums and waits for the row
UpdateBoard(x) ==
  /\ txns[x].pc = "update_lb"
  /\ LET tx == txns[x]
         user_id == tx.affected[tx.i]
         row == BoardRow(tx, user_id)
     IN IF BoardLockedByOther(x, user_id)
          THEN /\ row # {}
               /\ TxGoes(x, [tx EXCEPT !.pc = "lb_wait",
                                       !.pending = TheRow(row).total_points])
          ELSE BoardProceeds(x, [tx EXCEPT !.w_lb = OverlayBoard(tx.w_lb, row)])

\* the other transaction has ended: the waiting UPDATE writes the sums it
\* had taken into the row as it is now
UpdateBoardAfterWait(x) ==
  /\ txns[x].pc = "lb_wait"
  /\ LET tx == txns[x]
         user_id == tx.affected[tx.i]
         rows == {l \in View(tx).leaderboard : l.user_id = user_id}
     IN /\ ~BoardLockedByOther(x, user_id)
        /\ BoardProceeds(x, [tx EXCEPT !.w_lb =
              OverlayBoard(tx.w_lb, {[l EXCEPT !.total_points = tx.pending] : l \in rows})])

-----------------------------------------------------------------------------------------------------------------------------------------------------
(* Inputs of the requests *)

PickTeams == {TeamAStar, TeamB}
WinningTeams == {TeamA, TeamBStar, PUSH}
Spreads == {-3, 3}
TbAnswers == {<<"7">>}

GameInput(dates, spreads, winners) ==
  [home_team : {TeamA}, away_team : {TeamB}, spread : spreads,
   game_date : dates, winning_team : winners]

InitOf(ids) ==
  /\ now = Clock0
  /\ games = {}
  /\ nextGameId = 1
  /\ picks = {}
  /\ leaderboard = {[user_id |-> u, total_points |-> 0] : u \in ids}
  /\ tiebreakers = {}
  /\ nextTbId = 1
  /\ tiebreaker_picks = {}
  /\ last = [op |-> "init", args |-> <<>>, status |-> 0]
  /\ txns = [x \in TxIds |-> Idle]
  /\ users = {UserRow(u) : u \in ids}
  /\ nextUserId = FirstFreeUserId
  /\ active_requests = 0
  /\ requests = [r \in ReqIds |-> "idle"]

-----------------------------------------------------------------------------
(* Spec: picks and grading of a game by two users *)

Init == InitOf(Users)

Next ==
  \/ Tick
  \/ \E g \in GameInput(ScoreDates, Spreads, {NULL}) : CreateGame(g, MaxGames)
  \/ \E u \in Users, g \in 1..MaxGames, t \in PickTeams, l \in LockInputs :
       SubmitPick(u, g, t, l)
  \/ \E g \in 1..MaxGames, w \in WinningTeams : UpdateScore(g, w)
  \/ \E g \in 1..MaxGames,
        in \in GameInput(ScoreDates, Spreads, WinningTeams \cup {NULL}) :
       UpdateGame(g, in)
  \/ \E g \in 1..MaxGames : DeleteGame(g)

Spec == Init /\ [][Next]_vars

-----------------------------------------------------------------------------------------------------------------------------------------------------
(* SpecLock: the weekly lock of one user over several games; the admin     *)
(* reschedules and deletes games                                           *)

InitLock == InitOf(LockUsers)

CreateLockGame(n) ==
  \E g \in GameInput(GameDates, {3}, {NULL}) : CreateGame(g, n)

SubmitLockPick(n) ==
  \E u \in LockUsers, g \in 1..n, t \in PickTeams, l \in LockInputs :
    SubmitPick(u, g, t, l)

RescheduleGame(n) ==
  \E g \in 1..n, in \in GameInput(GameDates, {3}, {NULL}) : UpdateGame(g, in)

DeleteLockGame(n) ==
  \E g \in 1..n : DeleteGame(g)

NextLock ==
  \/ Tick
  \/ CreateLockGame(LockGames)
  \/ SubmitLockPick(LockGames)
  \/ RescheduleGame(LockGames)
  \/ DeleteLockGame(LockGames)

SpecLock == InitLock /\ [][NextLock]_vars

-----------------------------------------------------------------------------------------------------------------------------------------------------------------------------------------------------------------------------
(* SpecLock3: the same with one more game, one team, and lock requests     *)
(* that are true or omitted                                                *)

Lock3Teams == {TeamB}
Lock3Inputs == {None, Some(TRUE)}

SubmitLock3Pick(n) ==
  \E u \in LockUsers, g \in 1..n, t \in Lock3Teams, l \in Lock3Inputs :
    SubmitPick(u, g, t, l)

NextLock3 ==
  \/ Tick
  \/ CreateLockGame(LockGames + 1)
  \/ SubmitLock3Pick(LockGames + 1)
  \/ RescheduleGame(LockGames + 1)
  \/ DeleteLockGame(LockGames + 1)

SpecLock3 == InitLock /\ [][NextLock3]_vars

-----
(* SpecBoard: the leaderboard totals of two users over a game and a        *)
(* tiebreaker                                                              *)

BoardTeams == {TeamAStar}
BoardWinners == {TeamA, PUSH}
BoardDates == {Week1Start}
BoardLocks == {None, Some(TRUE)}

NextBoard ==
  \/ Tick
  \/ \E g \in GameInput(BoardDates, {3}, {NULL}) : CreateGame(g, MaxGames)
  \/ \E u \in Users, g \in 1..MaxGames, t \in BoardTeams, l \in BoardLocks :
       SubmitPick(u, g, t, l)
  \/ \E g \in 1..MaxGames, w \in BoardWinners : UpdateScore(g, w)
  \/ \E g \in 1..MaxGames, in \in GameInput(BoardDates, {3}, BoardWinners) :
       UpdateGame(g, in)
  \/ \E g \in 1..MaxGames : DeleteGame(g)
  \/ \E st \in BoardDates : CreateTiebreaker(st, MaxTiebreakers)
  \/ \E u \in Users, b \in 1..MaxTiebreakers, a \in TbAnswers :
       CreateTiebreakerPick(u, b, a)
  \/ \E u \in Users, b \in 1..MaxTiebreakers, n \in 0..MaxPoints :
       UpdateTiebreakerPoints(u, b, n)
  \/ \E b \in 1..MaxTiebreakers : DeleteTiebreaker(b)

SpecBoard == Init /\ [][NextBoard]_vars

-----
(* Properties of grading *)

WinnerOf(gs, game_id) == TheRow({g \in gs : g.id = game_id}).winning_team

\* the points the scoring rule gives a pick: 2 for a correct locked pick,
\* 1 for a correct pick, 0 otherwise, on names without their trailing marker
ExpectedPoints(picked_team, lock, w) ==
  IF w # NULL /\ TrimTrailing(picked_team) = TrimTrailing(w)
    THEN (IF lock THEN 2 ELSE 1)
    ELSE 0

PicksScored(ps, game_id, w) ==
  \A p \in ps : p.game_id = game_id =>
    p.points_awarded = ExpectedPoints(p.picked_team, p.lock, w)

\* C1: right after a game is graded with a winner other than PUSH, through
\* /update_score or through update_game changing winning_team, every pick on
\* the game has 2, 1 or 0 points as a function of (picked_team, lock, winner)
C1_GradeScoresPicks ==
  [][(/\ last'.op \in {"update_score", "update_game"}
      /\ last'.status = 200
      /\ WinnerOf(games', last'.args[1]) # PUSH
      /\ \/ last'.op = "update_score"
         \/ WinnerOf(games', last'.args[1]) # WinnerOf(games, last'.args[1]))
     => PicksScored(picks', last'.args[1], WinnerOf(games', last'.args[1]))]_vars

\* a game was just graded with a team: one pick on it scored 2, another 0
C1_Witness ==
  /\ last.op = "update_score"
  /\ last.status = 200
  /\ WinnerOf(games, last.args[1]) \notin {PUSH, NULL}
  /\ \E p, q \in picks :
       /\ p.game_id = last.args[1] /\ q.game_id = last.args[1]
       /\ p.points_awarded = 2 /\ q.points_awarded = 0 /\ q.lock

\* C2: in every state, every pick on a game graded with a team has the
\* points the scoring rule gives it
C2_GradedPicksScored ==
  \A g \in games : g.winning_team \notin {NULL, PUSH} =>
    PicksScored(picks, g.id, g.winning_team)

\* C3: in every state, every pick on a game graded PUSH has 0 points
C3_PushPicksZero ==
  \A g \in games : g.winning_team = PUSH =>
    \A p \in picks : p.game_id = g.id => p.points_awarded = 0

\* a game with picks was just graded PUSH, and a user who had scored on it
\* earlier is back to a total of 0
C3_Witness ==
  /\ last.op \in {"update_score", "update_game"}
  /\ last.status = 200
  /\ WinnerOf(games, last.args[1]) = PUSH
  /\ \E p \in picks : p.game_id = last.args[1] /\ p.lock

-----------------------------------------------------------------------------
(* Properties of the leaderboard *)

BoardSynced(lb, ps, tps) ==
  \A l \in lb :
    l.total_points = SumPoints({p \in ps : p.user_id = l.user_id})
                     + SumPoints({x \in tps : x.user_id = l.user_id})

GradingOrDeletion ==
  {"update_score", "update_game", "update_tiebreaker_points", "delete_game",
   "delete_tiebreaker"}

\* C4: when a grading or deletion request has completed, every user's
\* total_points is the sum of the points of the user's picks plus the sum of
\* the points of the user's tiebreaker picks
C4_BoardSyncedAfterGrading ==
  (last.op \in GradingOrDeletion /\ last.status = 200)
    => BoardSynced(leaderboard, picks, tiebreaker_picks)

-----------------------------------------------------------------------------
(* Properties of submit_pick and of the weekly lock *)

\* the week window of a date: the number of whole weeks between Tuesday
\* 03:00 New York of week 0 and the date
WeekIndex(d) ==
  (ToNY(d) - (Tuesday * HoursPerDay + WeekStartHour))
    \div (DaysPerWeek * HoursPerDay)

DateOf(gs, game_id) == TheRow({g \in gs : g.id = game_id}).game_date
Exists(gs, game_id) == {g \in gs : g.id = game_id} # {}
Started(gs, game_id, t) == Exists(gs, game_id) /\ t >= DateOf(gs, game_id)
PickOf(ps, user_id, game_id) ==
  TheRow({p \in ps : p.user_id = user_id /\ p.game_id = game_id})
HasPick(ps, user_id, game_id) ==
  {p \in ps : p.user_id = user_id /\ p.game_id = game_id} # {}
ClientError(status) == status \in 400..499

\* the locked picks of a user on games in the week window of game_id
LocksInWeek(ps, gs, user_id, game_id) ==
  {p \in ps : /\ p.user_id = user_id /\ p.lock /\ Exists(gs, p.game_id)
              /\ WeekIndex(DateOf(gs, p.game_id)) = WeekIndex(DateOf(gs, game_id))}

\* C5: in every state a user has at most one locked pick among the games of
\* one week window
C5_OneLockPerWeek ==
  \A p, q \in picks :
    (p.user_id = q.user_id /\ p.game_id # q.game_id /\ p.lock /\ q.lock)
      => WeekIndex(DateOf(games, p.game_id)) # WeekIndex(DateOf(games, q.game_id))

\* C6: a submit_pick at or after game_date by a user without a pick on the
\* game is rejected with a client error and creates no pick row
C6_NoNewPickOnceStarted ==
  [][(/\ last'.op = "submit_pick"
      /\ Started(games, last'.args[2], now)
      /\ ~HasPick(picks, last'.args[1], last'.args[2]))
     => /\ ClientError(last'.status)
        /\ \A p \in picks' : HasPick(picks, p.user_id, p.game_id)]_vars

\* a pick for a game without a pick of the user was just refused at the very
\* hour of its game_date
C6_Witness ==
  /\ last.op = "submit_pick"
  /\ last.status = 400
  /\ Exists(games, last.args[2])
  /\ now = DateOf(games, last.args[2])
  /\ ~HasPick(picks, last.args[1], last.args[2])

\* C7: no submit_pick changes picked_team or lock of a pick on a started
\* game, and a request that would unlock such a pick or change its team is
\* rejected and changes no pick
C7_StartedPickFrozen ==
  [][/\ last'.op = "submit_pick" =>
          \A p \in picks : Started(games, p.game_id, now) =>
            /\ HasPick(picks', p.user_id, p.game_id)
            /\ PickOf(picks', p.user_id, p.game_id).picked_team = p.picked_team
            /\ PickOf(picks', p.user_id, p.game_id).lock = p.lock
     /\ \A u \in LockUsers, g \in 1..(LockGames + 1), t \in PickTeams, l \in LockInputs :
          (/\ last'.op = "submit_pick"
           /\ last'.args = <<u, g, l>>
           /\ Started(games, g, now)
           /\ HasPick(picks, u, g)
           /\ \/ t # PickOf(picks, u, g).picked_team
              \/ l = Some(~PickOf(picks, u, g).lock)
           /\ SubmitPick(u, g, t, l))
          => ClientError(last'.status) /\ picks' = picks]_vars

\* the unlocking of a locked pick on a started game was just refused
C7_Witness ==
  /\ last.op = "submit_pick"
  /\ last.status = 400
  /\ last.args[3] = Some(FALSE)
  /\ Started(games, last.args[2], now)
  /\ HasPick(picks, last.args[1], last.args[2])
  /\ PickOf(picks, last.args[1], last.args[2]).lock

\* C8: a submit_pick for a started game that repeats the team and the lock
\* of the existing pick (or omits the lock) succeeds and changes no pick
C8_ResubmitChangesNothing ==
  [][\A u \in LockUsers, g \in 1..(LockGames + 1), t \in PickTeams, l \in LockInputs :
       (/\ last'.op = "submit_pick"
        /\ last'.args = <<u, g, l>>
        /\ Started(games, g, now)
        /\ HasPick(picks, u, g)
        /\ t = PickOf(picks, u, g).picked_team
        /\ l \in {None, Some(PickOf(picks, u, g).lock)}
        /\ SubmitPick(u, g, t, l))
       => last'.status = 200 /\ picks' = picks]_vars

\* C9: when a user with a locked pick on Game1 submits lock = true on Game2
\* of the same week window before either game has started, Game1's pick is
\* unlocked and Game2's pick is the user's only locked pick of that week
C9_LockMovesToNewGame ==
  [][\A g1 \in 1..(LockGames + 1) :
       (/\ last'.op = "submit_pick"
        /\ last'.args[3] = Some(TRUE)
        /\ g1 # last'.args[2]
        /\ Exists(games, g1) /\ Exists(games, last'.args[2])
        /\ ~Started(games, g1, now) /\ ~Started(games, last'.args[2], now)
        /\ WeekIndex(DateOf(games, g1)) = WeekIndex(DateOf(games, last'.args[2]))
        /\ HasPick(picks, last'.args[1], g1)
        /\ PickOf(picks, last'.args[1], g1).lock)
       => /\ ~PickOf(picks', last'.args[1], g1).lock
          /\ {p.game_id : p \in LocksInWeek(picks', games', last'.args[1],
                                            last'.args[2])} = {last'.args[2]}]_vars

\* C10: with a locked pick on a started Game1, a submit_pick with lock = true
\* on another game of the same week window is rejected with status 400 and
\* leaves every table as it was
C10_StartedLockBlocksRelock ==
  [][(/\ last'.op = "submit_pick"
      /\ last'.args[3] = Some(TRUE)
      /\ Exists(games, last'.args[2])
      /\ \E p \in LocksInWeek(picks, games, last'.args[1], last'.args[2]) :
           p.game_id # last'.args[2] /\ Started(games, p.game_id, now))
     => /\ last'.status = 400
        /\ UNCHANGED <<games, picks, leaderboard, tiebreakers, tiebreaker_picks>>]_vars

\* a lock on Game2 was just refused while the user holds a locked pick on a
\* started Game1 of the same week and a locked pick on a third, not started
\* game of that week, which the request had unlocked before it was refused
C10_Witness ==
  /\ last.op = "submit_pick"
  /\ last.status = 400
  /\ last.args[3] = Some(TRUE)
  /\ Exists(games, last.args[2])
  /\ \E p, q \in LocksInWeek(picks, games, last.args[1], last.args[2]) :
       /\ p.game_id # last.args[2] /\ Started(games, p.game_id, now)
       /\ q.game_id # last.args[2] /\ ~Started(games, q.game_id, now)
       /\ q.game_id < p.game_id

-----------------------------------------------------------------------------
(* Properties of regrading *)

TotalOf(lb, user_id) == TheRow({l \in lb : l.user_id = user_id}).total_points

\* C11: an /update_score that repeats the /update_score before it, for the
\* same game with the same winning_team, leaves the points_awarded of every
\* pick and the total_points of every user as the first one left them
C11_RegradeSameWinnerIdempotent ==
  [][(/\ last.op = "update_score" /\ last.status = 200
      /\ last'.op = "update_score" /\ last'.status = 200
      /\ last'.args[1] = last.args[1]
      /\ last'.args[2] = last.args[2])
     => picks' = picks /\ leaderboard' = leaderboard]_vars

\* a game was just graded a second time in a row with the same team; a
\* locked pick on it has 2 points and its user a total of 2
C11_Witness ==
  /\ last.op = "update_score"
  /\ last.status = 200
  /\ last.args[3]
  /\ \E p \in picks :
       /\ p.game_id = last.args[1]
       /\ p.points_awarded = 2
       /\ TotalOf(leaderboard, p.user_id) = 2

\* a grade request for a game row: POST /update_score, or PUT /games/{id}
\* that resends the row with the winning_team
GradeRoutes == {"update_score", "update_game"}

Graded(db, t, route, g, w) ==
  LET cur == TheRow(GameRows(db, g))
  IN get_db_cursor(db,
       IF route = "update_score"
         THEN update_score(db, g, w)
         ELSE update_game(db, t, g,
                [home_team |-> cur.home_team, away_team |-> cur.away_team,
                 spread |-> cur.spread, game_date |-> cur.game_date,
                 winning_team |-> w]))

\* C12: in every state and for every game, grading the game with w1 and then
\* with w2 gives the same points_awarded of every pick and the same
\* total_points of every user as grading it with w2 alone
C12_RegradeSelfHealing ==
  \A g \in games, w1 \in WinningTeams, w2 \in WinningTeams, route \in GradeRoutes :
    LET alone == Graded(DB, now, route, g.id, w2)
        twice == Graded(Graded(DB, now, route, g.id, w1), now, route, g.id, w2)
    IN alone.picks = twice.picks /\ alone.leaderboard = twice.leaderboard

-----------------------------------------------------------------------------
(* Properties of delete_game *)

\* C13: a successful delete_game removes the game and every pick on it, and
\* leaves every user's total_points equal to the sum of the points of the
\* user's remaining picks plus the sum of the points of the user's
\* tiebreaker picks
C13_DeleteGameResyncsBoard ==
  [][(last'.op = "delete_game" /\ last'.status = 200)
     => /\ ~Exists(games', last'.args[1])
        /\ \A p \in picks' : p.game_id # last'.args[1]
        /\ BoardSynced(leaderboard', picks', tiebreaker_picks')]_vars

-----------------------------------------------------------------------------
(* SpecAuth: grade requests by callers with and without the admin flag *)

\* who sends a request: a user with users.admin, a user without it, and a
\* caller without a valid token
Callers == {"admin", "user", "anonymous"}

\* the status get_current_user ends with: 401 without a valid token
get_current_user(caller) == IF caller = "anonymous" THEN 401 ELSE 200

\* the status get_current_admin_user ends with: 403 without users.admin
get_current_admin_user(caller) ==
  IF get_current_user(caller) # 200 THEN get_current_user(caller)
  ELSE IF caller # "admin" THEN 403
  ELSE 200

\* POST /update_score declares no dependency on the caller
UpdateScoreBy(caller, game_id, winning_team) == UpdateScore(game_id, winning_team)

\* PUT /games/{game_id} depends on get_current_admin_user
UpdateGameBy(caller, game_id, game) ==
  IF get_current_admin_user(caller) # 200
    THEN /\ last' = [op |-> "update_game", args |-> <<game_id>>,
                      status |-> get_current_admin_user(caller)]
         /\ UNCHANGED <<now, games, nextGameId, picks, leaderboard, tiebreakers,
                        nextTbId, tiebreaker_picks, txns,
                        users, nextUserId, active_requests, requests>>
    ELSE UpdateGame(game_id, game)

AuthLocks == {None, Some(TRUE)}
AuthWinners == {TeamA, PUSH}

NextAuth ==
  \/ Tick
  \/ \E g \in GameInput(ScoreDates, {3}, {NULL}) : CreateGame(g, MaxGames)
  \/ \E u \in Users, g \in 1..MaxGames, t \in PickTeams, l \in AuthLocks :
       SubmitPick(u, g, t, l)
  \/ \E c \in Callers, g \in 1..MaxGames, w \in AuthWinners : UpdateScoreBy(c, g, w)
  \/ \E c \in Callers, g \in 1..MaxGames,
        in \in GameInput(ScoreDates, {3}, AuthWinners \cup {NULL}) :
       UpdateGameBy(c, g, in)

SpecAuth == Init /\ [][NextAuth]_vars

\* C16: a grade request for an existing game, through /update_score or
\* through update_game, of a caller who is not an authenticated admin is
\* rejected (401 or 403) and changes no winning_team, no points_awarded and
\* no total_points
C16_GradingNeedsAdmin ==
  [][\A c \in Callers \ {"admin"}, g \in 1..MaxGames :
       (/\ Exists(games, g)
        /\ \/ \E w \in AuthWinners : UpdateScoreBy(c, g, w)
           \/ \E in \in GameInput(ScoreDates, {3}, AuthWinners \cup {NULL}) :
                UpdateGameBy(c, g, in))
       => /\ last'.status \in {401, 403}
          /\ UNCHANGED <<games, picks, leaderboard>>]_vars

-----------------------------------------------------------------------------
(* Properties of the error statuses of grading *)

\* C17: a grade request, through /update_score or through update_game, for
\* a game_id without a games row ends with status 404 and changes no table
C17_GradeMissingGameNotFound ==
  [][(/\ last'.op \in {"update_score", "update_game"}
      /\ ~Exists(games, last'.args[1]))
     => /\ last'.status = 404
        /\ UNCHANGED <<games, picks, leaderboard, tiebreakers, tiebreaker_picks>>]_vars

-----------------------------------------------------------------------------
(* SpecFrame: grading among several games, with a tiebreaker of one user   *)
(* and the deletion of games                                               *)

FrameTeams == {TeamAStar}
FrameLocks == {None, Some(TRUE)}
FrameWinners == {TeamA, PUSH}
FrameTbUsers == {2}

NextFrame ==
  \/ \E g \in GameInput(BoardDates, {3}, {NULL}) : CreateGame(g, FrameGames)
  \/ \E u \in Users, g \in 1..FrameGames, t \in FrameTeams, l \in FrameLocks :
       SubmitPick(u, g, t, l)
  \/ \E g \in 1..FrameGames, w \in FrameWinners : UpdateScore(g, w)
  \/ \E g \in 1..FrameGames, in \in GameInput(BoardDates, {3}, FrameWinners) :
       UpdateGame(g, in)
  \/ \E g \in 1..FrameGames : DeleteGame(g)
  \/ \E st \in BoardDates : CreateTiebreaker(st, MaxTiebreakers)
  \/ \E u \in FrameTbUsers, b \in 1..MaxTiebreakers, a \in TbAnswers :
       CreateTiebreakerPick(u, b, a)
  \/ \E u \in FrameTbUsers, b \in 1..MaxTiebreakers, n \in 0..MaxPoints :
       UpdateTiebreakerPoints(u, b, n)

SpecFrame == Init /\ [][NextFrame]_vars

UsersWithPick(ps, game_id) == {p.user_id : p \in {q \in ps : q.game_id = game_id}}

\* C19: a successful grading of a game, through /update_score or through an
\* update_game that changes winning_team, sets the total_points of every
\* user with a pick on the game to the sum of the points of the user's picks
\* plus the sum of the points of the user's tiebreaker picks, and leaves the
\* leaderboard row of every other user and every pick on another game as
\* they were
C19_GradeTouchesOnlyItsUsers ==
  [][(/\ last'.op \in {"update_score", "update_game"}
      /\ last'.status = 200
      /\ \/ last'.op = "update_score"
         \/ WinnerOf(games', last'.args[1]) # WinnerOf(games, last'.args[1]))
     => /\ \A l \in leaderboard' :
             IF l.user_id \in UsersWithPick(picks, last'.args[1])
               THEN l.total_points =
                      SumPoints({p \in picks' : p.user_id = l.user_id})
                      + SumPoints({x \in tiebreaker_picks' : x.user_id = l.user_id})
               ELSE l \in leaderboard
        /\ {p \in picks' : p.game_id # last'.args[1]}
             = {p \in picks : p.game_id # last'.args[1]}]_vars

\* a game with a pick was just graded while a user without a pick on it has
\* a total that differs from the sum of that user's points (a delete_game
\* dropped the user's tiebreaker point): the row is left as it was
C19_Witness ==
  /\ last.op = "update_score"
  /\ last.status = 200
  /\ UsersWithPick(picks, last.args[1]) # {}
  /\ \E l \in leaderboard :
       /\ l.user_id \notin UsersWithPick(picks, last.args[1])
       /\ l.total_points #
            SumPoints({p \in picks : p.user_id = l.user_id})
            + SumPoints({x \in tiebreaker_picks : x.user_id = l.user_id})

-----------------------------------------------------------------------------
(* Properties of the tiebreaker points *)

TbPickOf(tps, user_id, tiebreaker_id) ==
  {x \in tps : x.user_id = user_id /\ x.tiebreaker_id = tiebreaker_id}

\* C20: update_tiebreaker_points(user, tiebreaker, points) for an existing
\* tiebreaker pick succeeds, sets the points_awarded of that pick to the
\* given points and changes nothing else of it, sets the user's total_points
\* to the sum of the points of the user's picks plus the sum of the points
\* of the user's tiebreaker picks, and changes no other tiebreaker pick, no
\* other leaderboard row and no pick
C20_TiebreakerPointsAsGiven ==
  [][\A u \in Users, b \in 1..MaxTiebreakers, n \in 0..MaxPoints :
       (/\ last'.op = "update_tiebreaker_points"
        /\ last'.args = <<u, b>>
        /\ TbPickOf(tiebreaker_picks, u, b) # {}
        /\ UpdateTiebreakerPoints(u, b, n))
       => /\ last'.status = 200
          /\ TbPickOf(tiebreaker_picks', u, b) =
               {[x EXCEPT !.points_awarded = n] : x \in TbPickOf(tiebreaker_picks, u, b)}
          /\ tiebreaker_picks' \ TbPickOf(tiebreaker_picks', u, b) =
               tiebreaker_picks \ TbPickOf(tiebreaker_picks, u, b)
          /\ \A l \in leaderboard' :
               IF l.user_id = u
                 THEN l.total_points =
                        SumPoints({p \in picks' : p.user_id = u})
                        + SumPoints({x \in tiebreaker_picks' : x.user_id = u})
                 ELSE l \in leaderboard
          /\ picks' = picks]_vars

\* the points of one user's tiebreaker pick were just set while another
\* user's pick on the same tiebreaker holds other points, and the first user
\* also has points from a pick on a game
C20_Witness ==
  /\ last.op = "update_tiebreaker_points"
  /\ last.status = 200
  /\ \E x, y \in tiebreaker_picks :
       /\ x.user_id = last.args[1] /\ x.tiebreaker_id = last.args[2]
       /\ y.user_id # x.user_id /\ y.tiebreaker_id = x.tiebreaker_id
       /\ y.points_awarded # x.points_awarded
       /\ x.points_awarded > 0
       /\ TotalOf(leaderboard, x.user_id) > x.points_awarded

-----------------------------------------------------------------------------
(* SpecLockRace: two submit_pick requests of one user with lock = true, in *)
(* flight at once                                                          *)

\* a request taken in one step, while no other request is in flight
Quiet(A) == AllIdle /\ A

RaceLocks == {Some(TRUE)}

NextLockRace ==
  \/ Quiet(Tick)
  \/ Quiet(\E g \in GameInput(ScoreDates, {3}, {NULL}) : CreateGame(g, RaceGames))
  \/ \E x \in TxIds, u \in LockUsers, g \in 1..RaceGames, t \in Lock3Teams,
        l \in RaceLocks : BeginSubmitPick(x, u, g, t, l)
  \/ \E x \in TxIds : SelectPick(x)
  \/ \E x \in TxIds : SelectLocks(x)
  \/ \E x \in TxIds : UnlockPick(x)
  \/ \E x \in TxIds : WritePick(x)
  \/ \E x \in TxIds : CommitTx(x)

SpecLockRace == InitLock /\ [][NextLockRace]_vars

\* C14: when the submit_pick requests with lock = true of a user, which may
\* run two at a time on different games of one week window, have all
\* finished, the user has at most one locked pick in a week window
C14_ConcurrentLocksKeepOneLock ==
  AllIdle =>
    \A p, q \in picks :
      (p.user_id = q.user_id /\ p.game_id # q.game_id /\ p.lock /\ q.lock)
        => WeekIndex(DateOf(games, p.game_id)) # WeekIndex(DateOf(games, q.game_id))

-----------------------------------------------------------------------------
(* SpecGradeRace: two /update_score requests in flight at once *)

RaceWinners == {TeamA}
RaceTeams == {TeamAStar}
RacePickLocks == {None}

NextGradeRace ==
  \/ Quiet(\E g \in GameInput(BoardDates, {3}, {NULL}) : CreateGame(g, RaceGames))
  \/ Quiet(\E u \in LockUsers, g \in 1..RaceGames, t \in RaceTeams, l \in RacePickLocks :
             SubmitPick(u, g, t, l))
  \/ \E x \in TxIds, g \in 1..RaceGames, w \in RaceWinners : BeginUpdateScore(x, g, w)
  \/ \E x \in TxIds : UpdateGameRow(x)
  \/ \E x \in TxIds : UpdatePicks(x)
  \/ \E x \in TxIds : UpdateBoard(x)
  \/ \E x \in TxIds : UpdateBoardAfterWait(x)
  \/ \E x \in TxIds : CommitTx(x)

SpecGradeRace == InitLock /\ [][NextGradeRace]_vars

\* C15: when /update_score requests, which may run two at a time on
\* different games, have all finished, every user's total_points is the sum
\* of the points of the user's picks plus the sum of the points of the user's
\* tiebreaker picks, as after the gradings taken one after the other
C15_ConcurrentGradingSerial ==
  AllIdle => BoardSynced(leaderboard, picks, tiebreaker_picks)

-----------------------------------------------------------------------------
(* SpecFault: requests that fail in the database after statements of       *)
(* theirs have run, on one connection                                      *)

FaultTx == {1}

\* the exception of a failure at the last step of the `with` block: the
\* statements have all run, conn.commit() raises
RaisedAtExit(r) == IF r.raised THEN r ELSE Raise(500, r.db)

UpdateGameFails(game_id, game) ==
  /\ Commit("update_game", <<game_id>>, RaisedAtExit(update_game(DB, now, game_id, game)))
  /\ UNCHANGED <<now, nextGameId, nextTbId, txns,
                 users, nextUserId, active_requests, requests>>

DeleteGameFails(game_id) ==
  /\ Commit("delete_game", <<game_id>>, RaisedAtExit(delete_game(DB, game_id)))
  /\ UNCHANGED <<now, nextGameId, nextTbId, txns,
                 users, nextUserId, active_requests, requests>>

UpdateTiebreakerPointsFails(user_id, tiebreaker_id, points) ==
  /\ Commit("update_tiebreaker_points", <<user_id, tiebreaker_id>>,
            RaisedAtExit(update_tiebreaker_points(DB, user_id, tiebreaker_id, points)))
  /\ UNCHANGED <<now, nextGameId, nextTbId, txns,
                 users, nextUserId, active_requests, requests>>

DeleteTiebreakerFails(tiebreaker_id) ==
  /\ Commit("delete_tiebreaker", <<tiebreaker_id>>,
            RaisedAtExit(delete_tiebreaker(DB, tiebreaker_id)))
  /\ UNCHANGED <<now, nextGameId, nextTbId, txns,
                 users, nextUserId, active_requests, requests>>

FaultWinners == {TeamA, NULL}

NextFault ==
  \/ Quiet(\E g \in GameInput(BoardDates, {3}, {NULL}) : CreateGame(g, RaceGames))
  \/ \E x \in FaultTx, u \in LockUsers, g \in 1..RaceGames, t \in RaceTeams,
        l \in FrameLocks : BeginSubmitPick(x, u, g, t, l)
  \/ \E x \in FaultTx : SelectPick(x)
  \/ \E x \in FaultTx : SelectLocks(x)
  \/ \E x \in FaultTx : UnlockPick(x)
  \/ \E x \in FaultTx : WritePick(x)
  \/ \E x \in FaultTx, g \in 1..RaceGames, w \in RaceWinners : BeginUpdateScore(x, g, w)
  \/ \E x \in FaultTx : UpdateGameRow(x)
  \/ \E x \in FaultTx : UpdatePicks(x)
  \/ \E x \in FaultTx : UpdateBoard(x)
  \/ \E x \in FaultTx : CommitTx(x)
  \/ \E x \in FaultTx : StatementFails(x)
  \/ Quiet(\E g \in 1..RaceGames, in \in GameInput(BoardDates, {3}, FaultWinners) :
             UpdateGame(g, in) \/ UpdateGameFails(g, in))
  \/ Quiet(\E g \in 1..RaceGames : DeleteGameFails(g))
  \/ Quiet(\E st \in BoardDates : CreateTiebreaker(st, MaxTiebreakers))
  \/ Quiet(\E u \in LockUsers, b \in 1..MaxTiebreakers, a \in TbAnswers :
             CreateTiebreakerPick(u, b, a))
  \/ Quiet(\E u \in LockUsers, b \in 1..MaxTiebreakers, n \in 0..MaxPoints :
             UpdateTiebreakerPoints(u, b, n) \/ UpdateTiebreakerPointsFails(u, b, n))
  \/ Quiet(\E b \in 1..MaxTiebreakers : DeleteTiebreakerFails(b))

SpecFault == InitLock /\ [][NextFault]_vars

MutatingRequests ==
  {"submit_pick", "update_score", "update_game", "update_tiebreaker_points",
   "delete_game", "delete_tiebreaker"}

\* C18: a mutating request that ends with an error, whichever of its
\* statements have run before, leaves every row of every table as it was
\* before the request
C18_FailedRequestChangesNothing ==
  [][(last'.op \in MutatingRequests /\ last'.status # 200)
     => UNCHANGED <<games, picks, leaderboard, tiebreakers, tiebreaker_picks>>]_vars

\* an /update_score just failed at the leaderboard statement, after it had
\* written the games row and a pick row: the game is still ungraded and the
\* pick and the total are still 0 although the pick names the winner
C18_Witness ==
  /\ last.op = "update_score"
  /\ last.status = 500
  /\ last.args[4] = 2
  /\ Exists(games, last.args[1])
  /\ WinnerOf(games, last.args[1]) = NULL
  /\ \E p \in picks :
       /\ p.game_id = last.args[1]
       /\ TrimTrailing(p.picked_team) = TrimTrailing(last.args[2])
       /\ p.points_awarded = 0
       /\ TotalOf(leaderboard, p.user_id) = 0

-----------------------------------------------------------------------------
(* Properties of tiebreaker picks *)

\* the tiebreaker that create_tiebreaker_pick selects: active and unanswered
OpenTiebreakers(tbs, tiebreaker_id) ==
  {b \in tbs : b.id = tiebreaker_id /\ b.is_active = TRUE /\ b.answer = NULL}

\* C21: a tiebreaker pick sent at or after the start_time of its tiebreaker
\* is answered 400 and the stored picks stay as they were, and no user ever
\* has two picks on one tiebreaker
C21_StartedTiebreakerPickRejected ==
  /\ [](\A x, y \in tiebreaker_picks :
          (x.user_id = y.user_id /\ x.tiebreaker_id = y.tiebreaker_id) => x = y)
  /\ [][\A u \in Users, b \in 1..MaxTiebreakers :
          (/\ last'.op = "create_tiebreaker_pick"
           /\ last'.args = <<u, b>>
           /\ OpenTiebreakers(tiebreakers, b) # {}
           /\ now >= TheRow(OpenTiebreakers(tiebreakers, b)).start_time)
          => (last'.status = 400 /\ UNCHANGED tiebreaker_picks)]_vars

-----------------------------------------------------------------------------
(* Properties of the grading of a locked pick *)

\* C22: when a user has a locked pick with 0 points on the team that an
\* /update_score names as the winner of a game without a winner, the grading
\* gives the pick 2 points and makes the user's total_points 2 more than it
\* was just before
C22_LockedWinAddsTwo ==
  [][\A p \in picks :
       (/\ last'.op = "update_score"
        /\ last'.status = 200
        /\ last'.args[1] = p.game_id
        /\ last'.args[2] # PUSH
        /\ WinnerOf(games, p.game_id) = NULL
        /\ p.lock = TRUE
        /\ p.points_awarded = 0
        /\ TrimTrailing(p.picked_team) = TrimTrailing(last'.args[2]))
       => /\ [p EXCEPT !.points_awarded = 2] \in picks'
          /\ TotalOf(leaderboard', p.user_id) = TotalOf(leaderboard, p.user_id) + 2]_vars

-----------------------------------------------------------------------------
(* The leaderboard read: GET /leaderboard with filter = "overall" *)

DigitChars == <<"0", "1", "2", "3", "4", "5", "6", "7", "8", "9">>
IsDigit(c) == \E n \in 1..Len(DigitChars) : DigitChars[n] = c
DigitValue(c) == (CHOOSE n \in 1..Len(DigitChars) : DigitChars[n] = c) - 1

\* answer ~ '^[0-9]+\.?[0-9]*$': digits, then at most one '.', then digits
IsNumeric(s) ==
  /\ s # NULL
  /\ \E k \in 1..Len(s) :
       /\ \A i \in 1..k : IsDigit(s[i])
       /\ \/ k = Len(s)
          \/ /\ s[k + 1] = "."
             /\ \A i \in (k + 2)..Len(s) : IsDigit(s[i])

\* the digits of s read as a base-ten number
RECURSIVE DigitsValue(_)
DigitsValue(s) ==
  IF Len(s) = 0 THEN 0
  ELSE DigitsValue(SubSeq(s, 1, Len(s) - 1)) * Len(DigitChars) + DigitValue(s[Len(s)])

\* numerics are kept in tenths: answers carry at most one digit after '.'
Tenths == 10

\* CAST(answer AS NUMERIC) of a string that IsNumeric, in tenths
CastNumeric(s) ==
  LET dot == IF \E i \in 1..Len(s) : s[i] = "."
               THEN CHOOSE i \in 1..Len(s) : s[i] = "." ELSE Len(s) + 1
      whole == DigitsValue(SubSeq(s, 1, dot - 1))
      frac == IF dot + 1 <= Len(s) THEN DigitValue(s[dot + 1]) ELSE 0
  IN whole * Tenths + frac

Abs(n) == IF n < 0 THEN -n ELSE n

\* COALESCE(accuracy_diff, 999999), in tenths
MissingDiff == 999999 * Tenths

\* the rows of the CTE game_points of one user: picks JOIN games
game_points(db, user_id) ==
  SumPoints({p \in db.picks : p.user_id = user_id /\ GameRows(db, p.game_id) # {}})

\* the CTE tiebreaker_points of one user: tiebreaker_picks JOIN tiebreakers
tiebreaker_points(db, user_id) ==
  SumPoints({x \in db.tiebreaker_picks :
               /\ x.user_id = user_id
               /\ \E b \in db.tiebreakers : b.id = x.tiebreaker_id})

\* the CTE correct_locks of one user
correct_locks(db, user_id) ==
  Cardinality({p \in db.picks :
                 /\ p.user_id = user_id
                 /\ p.lock = TRUE
                 /\ \E g \in GameRows(db, p.game_id) :
                      /\ g.winning_team # NULL
                      /\ g.winning_team # PUSH
                      /\ SqlEq(TrimTrailing(p.picked_team), TrimTrailing(g.winning_team))})

\* the rows of the CTE tiebreaker_accuracy of one user, without the rank
AccuracyRows(db, user_id) ==
  {[tiebreaker_id |-> b.id, start_time |-> b.start_time,
    accuracy_diff |-> Abs(CastNumeric(b.answer) - CastNumeric(x.answer))] :
     <<x, b>> \in {xb \in db.tiebreaker_picks \X db.tiebreakers :
                     /\ xb[1].user_id = user_id
                     /\ xb[1].tiebreaker_id = xb[2].id
                     /\ IsNumeric(xb[2].answer)
                     /\ IsNumeric(xb[1].answer)}}

\* ROW_NUMBER() OVER (PARTITION BY tp.user_id ORDER BY t.start_time ASC)
tiebreaker_rank(rows, r) ==
  1 + Cardinality({q \in rows : q.start_time < r.start_time})

\* COALESCE(ta<k>.accuracy_diff, 999999) of the LEFT JOIN on rank k
tiebreaker_diff(db, user_id, k) ==
  LET rows == AccuracyRows(db, user_id)
      ranked == {r \in rows : tiebreaker_rank(rows, r) = k}
  IN IF ranked = {} THEN MissingDiff ELSE TheRow(ranked).accuracy_diff

\* one row of the final SELECT
LeaderboardRow(db, user_id) ==
  [user_id |-> user_id,
   total_points |-> game_points(db, user_id) + tiebreaker_points(db, user_id),
   correct_locks |-> correct_locks(db, user_id),
   first_tiebreaker_diff |-> tiebreaker_diff(db, user_id, 1),
   second_tiebreaker_diff |-> tiebreaker_diff(db, user_id, 2),
   third_tiebreaker_diff |-> tiebreaker_diff(db, user_id, 3)]

\* ORDER BY total_points DESC, correct_locks DESC, first_tiebreaker_diff ASC,
\* second_tiebreaker_diff ASC, third_tiebreaker_diff ASC
OrderKey(row) ==
  <<-row.total_points, -row.correct_locks, row.first_tiebreaker_diff,
    row.second_tiebreaker_diff, row.third_tiebreaker_diff>>

\* a <= b in the lexicographic order of two tuples of the same length
LexLeq(a, b) ==
  \/ a = b
  \/ \E i \in 1..Len(a) : a[i] < b[i] /\ \A j \in 1..(i - 1) : a[j] = b[j]

\* the results the query may return: the rows of the users in an order that
\* ORDER BY allows (rows with equal keys come in any order)
get_leaderboard(db, us) ==
  LET ids == {u.id : u \in us}
      n == Cardinality(ids)
  IN {[i \in 1..n |-> LeaderboardRow(db, order[i])] :
        order \in {f \in [1..n -> ids] :
                     /\ \A i, j \in 1..n : i # j => f[i] # f[j]
                     /\ \A i \in 1..(n - 1) :
                          LexLeq(OrderKey(LeaderboardRow(db, f[i])),
                                 OrderKey(LeaderboardRow(db, f[i + 1])))}}

GetLeaderboard ==
  /\ \E rows \in get_leaderboard(DB, users) :
       last' = [op |-> "get_leaderboard", args |-> rows, status |-> 200]
  /\ UNCHANGED <<now, games, nextGameId, picks, leaderboard, tiebreakers, nextTbId,
                 tiebreaker_picks, txns, users, nextUserId, active_requests,
                 requests>>

-----------------------------------------------------------------------------
(* SpecRank: the leaderboard read over the picks of two users on a graded  *)
(* game and their answers to two tiebreakers                               *)

\* start_time of the tiebreakers 1, 2
RankStartTimes == <<Week1Start, Week1Mid>>
RankTbIds == 1..Len(RankStartTimes)
\* answers a user may have stored: numeric ones and one that is not
RankAnswers == {<<"7">>, <<"9">>, <<"7", ".", "5">>, <<"x">>}
\* the answer the admin stored for a tiebreaker, NULL while it has none
RankCorrectAnswers == {<<"7">>, NULL}
\* the pick of a user on the graded game: none, or a team with a lock flag
RankPicks == {None} \cup {Some(p) : p \in {TeamAStar, TeamB} \X BOOLEAN}

InitRank ==
  \E pk \in [Users -> RankPicks],
     ca \in [RankTbIds -> RankCorrectAnswers],
     ta \in [Users \X RankTbIds -> {None} \cup {Some(a) : a \in RankAnswers}] :
    /\ now = Week1Mid
    /\ games = {[id |-> 1, home_team |-> TeamA, away_team |-> TeamB, spread |-> 3,
                 game_date |-> Week1Start, winning_team |-> TeamA]}
    /\ nextGameId = 2
    /\ picks = {[user_id |-> u, game_id |-> 1, picked_team |-> pk[u][1][1],
                 lock |-> pk[u][1][2],
                 points_awarded |-> CasePoints(pk[u][1][1], pk[u][1][2], TeamA)]
                  : u \in {v \in Users : pk[v] # None}}
    /\ leaderboard = {[user_id |-> u, total_points |->
                         IF pk[u] = None THEN 0
                         ELSE CasePoints(pk[u][1][1], pk[u][1][2], TeamA)]
                        : u \in Users}
    /\ tiebreakers = {[id |-> b, start_time |-> RankStartTimes[b], answer |-> ca[b],
                       is_active |-> TRUE] : b \in RankTbIds}
    /\ nextTbId = Len(RankStartTimes) + 1
    /\ tiebreaker_picks = {[user_id |-> ub[1], tiebreaker_id |-> ub[2],
                            answer |-> ta[ub][1], points_awarded |-> 0]
                             : ub \in {x \in Users \X RankTbIds : ta[x] # None}}
    /\ last = [op |-> "init", args |-> <<>>, status |-> 0]
    /\ txns = [x \in TxIds |-> Idle]
    /\ users = {UserRow(u) : u \in Users}
    /\ nextUserId = FirstFreeUserId
    /\ active_requests = 0
    /\ requests = [r \in ReqIds |-> "idle"]

NextRank == GetLeaderboard

SpecRank == InitRank /\ [][NextRank]_vars

\* the tiebreakers with an answer, and the k-th of them by start_time
GradedTiebreakers(tbs) == {b \in tbs : b.answer # NULL}
RankedTiebreaker(tbs, k) ==
  {b \in GradedTiebreakers(tbs) :
     Cardinality({c \in GradedTiebreakers(tbs) : c.start_time < b.start_time}) = k - 1}

\* how far a user's answer is from the answer of the k-th graded tiebreaker:
\* as far as can be when the user has no answer or one that is not a number,
\* and 0 for everybody when there is no k-th graded tiebreaker
DiffOnRanked(tbs, tps, user_id, k) ==
  IF RankedTiebreaker(tbs, k) = {} THEN 0
  ELSE LET b == TheRow(RankedTiebreaker(tbs, k))
           mine == {x \in tps : x.user_id = user_id /\ x.tiebreaker_id = b.id
                                  /\ IsNumeric(x.answer) /\ IsNumeric(b.answer)}
       IN IF mine = {} THEN MissingDiff
          ELSE Abs(CastNumeric(b.answer) - CastNumeric(TheRow(mine).answer))

\* C23: the rows of the leaderboard read come by total_points descending,
\* then correct locked picks descending, then by the distance of the user's
\* answer from the correct one on the first, the second and the third
\* graded tiebreaker by start_time, ascending, a user without a numeric
\* answer on one of them coming after every user who answered it
C23_LeaderboardOrder ==
  last.op = "get_leaderboard" =>
    \A i, j \in 1..Len(last.args) :
      i < j =>
        LexLeq(<<-last.args[i].total_points, -last.args[i].correct_locks,
                 DiffOnRanked(tiebreakers, tiebreaker_picks, last.args[i].user_id, 1),
                 DiffOnRanked(tiebreakers, tiebreaker_picks, last.args[i].user_id, 2),
                 DiffOnRanked(tiebreakers, tiebreaker_picks, last.args[i].user_id, 3)>>,
               <<-last.args[j].total_points, -last.args[j].correct_locks,
                 DiffOnRanked(tiebreakers, tiebreaker_picks, last.args[j].user_id, 1),
                 DiffOnRanked(tiebreakers, tiebreaker_picks, last.args[j].user_id, 2),
                 DiffOnRanked(tiebreakers, tiebreaker_picks, last.args[j].user_id, 3)>>)

-----------------------------------------------------------------------------
(* Users: register, create_admin_user, delete_user *)

\* the tables a request about users reads and writes
UDB == [users |-> users, picks |-> picks, leaderboard |-> leaderboard,
        tiebreaker_picks |-> tiebreaker_picks]

UserRowsNamed(db, username) == {u \in db.users : u.username = username}
UserIds(us) == {u.id : u \in us}

\* register whose INSERT INTO leaderboard is missing
register_no_board(db, id, username) ==
  IF UserRowsNamed(db, username) # {} THEN Raise(400, db)
  ELSE Ok([db EXCEPT !.users = db.users \cup
                       {[id |-> id, username |-> username, admin |-> FALSE]}])

\* POST /register; id is the value the users.id sequence gives the INSERT
register(db, id, username) ==
  IF UserRowsNamed(db, username) # {} THEN Raise(400, db)
  ELSE Ok([db EXCEPT !.users = db.users \cup
                       {[id |-> id, username |-> username, admin |-> FALSE]},
                     !.leaderboard = db.leaderboard \cup
                       {[user_id |-> id, total_points |-> 0]}])

create_admin_user(db, id, username) ==
  IF UserRowsNamed(db, username) # {}
    THEN Ok([db EXCEPT !.users =
               {IF u.username = username THEN [u EXCEPT !.admin = TRUE] ELSE u
                  : u \in db.users}])
  ELSE IF \E u \in db.users : u.admin = TRUE THEN Ok(db)
  ELSE Ok([db EXCEPT !.users = db.users \cup
                       {[id |-> id, username |-> username, admin |-> TRUE]},
                     !.leaderboard = db.leaderboard \cup
                       {[user_id |-> id, total_points |-> 0]}])

\* what the foreign key tiebreaker_picks.user_id, whose declaration is not
\* in db.py, does when the user is deleted
TbPickUserRules == {"cascade", "restrict", "none"}

\* delete_user whose DELETE leaves the user's picks behind
delete_user_keep_picks(db, user_id, rule) ==
  AsInternal(
    IF {u \in db.users : u.id = user_id} = {} THEN Raise(404, db)
    ELSE IF rule = "restrict" /\ \E x \in db.tiebreaker_picks : x.user_id = user_id
      THEN Raise(500, db)
    ELSE Ok([db EXCEPT
               !.users = {u \in db.users : u.id # user_id},
               !.leaderboard = {l \in db.leaderboard : l.user_id # user_id},
               !.tiebreaker_picks =
                 IF rule = "cascade"
                   THEN {x \in db.tiebreaker_picks : x.user_id # user_id}
                   ELSE db.tiebreaker_picks]))

\* DELETE /admin/delete_user/{user_id}: picks and leaderboard go with the
\* user by ON DELETE CASCADE
delete_user(db, user_id, rule) ==
  AsInternal(
    IF {u \in db.users : u.id = user_id} = {} THEN Raise(404, db)
    ELSE IF rule = "restrict" /\ \E x \in db.tiebreaker_picks : x.user_id = user_id
      THEN Raise(500, db)
    ELSE Ok([db EXCEPT
               !.users = {u \in db.users : u.id # user_id},
               !.picks = {p \in db.picks : p.user_id # user_id},
               !.leaderboard = {l \in db.leaderboard : l.user_id # user_id},
               !.tiebreaker_picks =
                 IF rule = "cascade"
                   THEN {x \in db.tiebreaker_picks : x.user_id # user_id}
                   ELSE db.tiebreaker_picks]))

CommitUsers(op, args, r) ==
  LET db == get_db_cursor(UDB, r)
  IN /\ users' = db.users
     /\ picks' = db.picks
     /\ leaderboard' = db.leaderboard
     /\ tiebreaker_picks' = db.tiebreaker_picks
     /\ last' = [op |-> op, args |-> args, status |-> r.status]

\* the sequence users.id moves on when the INSERT INTO users runs
Register(username, maxId) ==
  /\ nextUserId <= maxId
  /\ CommitUsers("register", <<username>>, register(UDB, nextUserId, username))
  /\ nextUserId' = IF UserRowsNamed(UDB, username) = {}
                     THEN nextUserId + 1 ELSE nextUserId
  /\ UNCHANGED <<now, games, nextGameId, tiebreakers, nextTbId, txns,
                 active_requests, requests>>

\* a register whose conn.commit() raises after both INSERTs have run; the
\* sequence keeps the id it gave
RegisterFails(username, maxId) ==
  /\ nextUserId <= maxId
  /\ CommitUsers("register", <<username>>,
                 RaisedAtExit(register(UDB, nextUserId, username)))
  /\ nextUserId' = IF UserRowsNamed(UDB, username) = {}
                     THEN nextUserId + 1 ELSE nextUserId
  /\ UNCHANGED <<now, games, nextGameId, tiebreakers, nextTbId, txns,
                 active_requests, requests>>

\* create_admin_user catches every exception: its caller sees no status
CreateAdminUser(username, maxId) ==
  /\ nextUserId <= maxId
  /\ CommitUsers("create_admin_user", <<username>>,
                 create_admin_user(UDB, nextUserId, username))
  /\ nextUserId' = IF UserRowsNamed(UDB, username) = {}
                      /\ ~\E u \in users : u.admin = TRUE
                     THEN nextUserId + 1 ELSE nextUserId
  /\ UNCHANGED <<now, games, nextGameId, tiebreakers, nextTbId, txns,
                 active_requests, requests>>

\* the second logged argument is the number of picks the user had
DeleteUser(user_id, rule) ==
  /\ CommitUsers("delete_user",
                 <<user_id, Cardinality({p \in picks : p.user_id = user_id})>>,
                 delete_user(UDB, user_id, rule))
  /\ UNCHANGED <<now, games, nextGameId, tiebreakers, nextTbId, txns, nextUserId,
                 active_requests, requests>>

\* a request of a user whose token names user_id: 401 from get_current_user
\* when users has no such row
Unauthorized(op, args) ==
  /\ last' = [op |-> op, args |-> args, status |-> 401]
  /\ UNCHANGED <<now, games, nextGameId, picks, leaderboard, tiebreakers, nextTbId,
                 tiebreaker_picks, txns, users, nextUserId, active_requests,
                 requests>>

SubmitPickAs(user_id, game_id, picked_team, lock) ==
  IF user_id \in UserIds(users)
    THEN SubmitPick(user_id, game_id, picked_team, lock)
    ELSE Unauthorized("submit_pick", <<user_id, game_id, lock>>)

CreateTiebreakerPickAs(user_id, tiebreaker_id, answer) ==
  IF user_id \in UserIds(users)
    THEN CreateTiebreakerPick(user_id, tiebreaker_id, answer)
    ELSE Unauthorized("create_tiebreaker_pick", <<user_id, tiebreaker_id>>)

\* `import db` (service start, backup script): the module body runs
\* drop_and_recreate_tables, which drops users, games, picks and leaderboard
\* with their id sequences and creates them empty; the tiebreaker tables
\* are not among them
ImportDb ==
  /\ users' = {}
  /\ games' = {}
  /\ picks' = {}
  /\ leaderboard' = {}
  /\ nextUserId' = 1
  /\ nextGameId' = 1
  /\ last' = [op |-> "import_db", args |-> <<>>, status |-> 0]
  /\ UNCHANGED <<now, tiebreakers, nextTbId, tiebreaker_picks, txns,
                 active_requests, requests>>

-----------------------------------------------------------------------------
(* SpecUsers: users come and go while they pick a game and a tiebreaker,   *)
(* and the service starts again                                            *)

MaxUsers == 3
UsersNames == {"bob", "cat"}
UsersTeams == {TeamAStar}
UsersLocks == {None}
UsersWinners == {TeamA}

NextUsers ==
  \/ \E n \in UsersNames : Register(n, MaxUsers)
  \/ \E n \in UsersNames : RegisterFails(n, MaxUsers)
  \/ \E n \in UsersNames : CreateAdminUser(n, MaxUsers)
  \/ \E u \in 1..MaxUsers, rule \in TbPickUserRules : DeleteUser(u, rule)
  \/ \E g \in GameInput(BoardDates, {3}, {NULL}) : CreateGame(g, MaxGames)
  \/ \E u \in 1..MaxUsers, g \in 1..MaxGames, t \in UsersTeams, l \in UsersLocks :
       SubmitPickAs(u, g, t, l)
  \/ \E g \in 1..MaxGames, w \in UsersWinners : UpdateScore(g, w)
  \/ \E g \in 1..MaxGames : DeleteGame(g)
  \/ \E st \in BoardDates : CreateTiebreaker(st, MaxTiebreakers)
  \/ \E u \in 1..MaxUsers, b \in 1..MaxTiebreakers, a \in TbAnswers :
       CreateTiebreakerPickAs(u, b, a)
  \/ \E b \in 1..MaxTiebreakers : DeleteTiebreaker(b)
  \/ ImportDb

SpecUsers == Init /\ [][NextUsers]_vars

-----------------------------------------------------------------------------
(* Properties of the service start *)

\* C27: importing module db leaves the rows of users, games, picks and
\* leaderboard as they were
C27_ImportKeepsData ==
  [][last'.op = "import_db" => UNCHANGED <<users, games, picks, leaderboard>>]_vars

-----------------------------------------------------------------------------
(* Properties of the users and their leaderboard rows *)

\* C28: no two users share a username, every user has exactly one
\* leaderboard row, every leaderboard row is the row of a user, and so every
\* user with a pick has a leaderboard row for a recomputation to update
C28_UserHasOneBoardRow ==
  /\ \A u, v \in users : (u.username = v.username \/ u.id = v.id) => u = v
  /\ \A u \in users : Cardinality({l \in leaderboard : l.user_id = u.id}) = 1
  /\ \A l \in leaderboard : l.user_id \in UserIds(users)
  /\ \A p \in picks : \E l \in leaderboard : l.user_id = p.user_id

\* a third user was just registered, next to an admin and after a register
\* that failed or a deletion used up an id, and has a leaderboard row with 0
\* points
C28_Witness ==
  /\ last.op = "register"
  /\ last.status = 200
  /\ \E u \in users :
       /\ u.username = last.args[1]
       /\ u.id >= FirstFreeUserId
       /\ [user_id |-> u.id, total_points |-> 0] \in leaderboard
  /\ \E u \in users : u.admin = TRUE
  /\ picks # {}

-----------------------------------------------------------------------------
(* SpecWeek: the week window of every game date of eight weeks, over the   *)
(* two changes of the New York clocks                                      *)

MaxWeekHour == 1400
WeekDates == 0..MaxWeekHour

InitWeek ==
  /\ InitOf(Users)

\* get_game_week_bounds(game_date); the logged arguments are the date and
\* the two bounds
GetGameWeekBounds(game_date) ==
  /\ last' = [op |-> "get_game_week_bounds",
              args |-> <<game_date>> \o get_game_week_bounds(game_date),
              status |-> 0]
  /\ UNCHANGED <<now, games, nextGameId, picks, leaderboard, tiebreakers, nextTbId,
                 tiebreaker_picks, txns, users, nextUserId, active_requests,
                 requests>>

NextWeek == \E d \in WeekDates : GetGameWeekBounds(d)

SpecWeek == InitWeek /\ [][NextWeek]_vars

\* an instant at which the New York wall clock shows Tuesday 03:00
IsWeekStart(t) ==
  ToNY(t) % (DaysPerWeek * HoursPerDay) = Tuesday * HoursPerDay + WeekStartHour

\* C25: the window of a game date starts at the last Tuesday 03:00 New York
\* at or before the date, ends at the next Tuesday 03:00 New York, holds the
\* date, and is the same as or disjoint from the window of any other date
C25_WeekWindow ==
  last.op = "get_game_week_bounds" =>
    LET d == last.args[1]
        start == last.args[2]
        end == last.args[3]
    IN /\ start <= d /\ d < end
       /\ IsWeekStart(start)
       /\ IsWeekStart(end)
       /\ \A t \in (start + 1)..(end - 1) : ~IsWeekStart(t)
       /\ \A d2 \in WeekDates :
            LET w == get_game_week_bounds(d2)
            IN w = <<start, end>> \/ w[2] <= start \/ end <= w[1]

\* the window of a Tuesday before 03:00 New York in the week in which the
\* clocks went forward: it began the Tuesday before and is an hour short of
\* seven days
C25_Witness ==
  /\ last.op = "get_game_week_bounds"
  /\ (ToNY(last.args[1]) \div HoursPerDay) % DaysPerWeek = Tuesday
  /\ ToNY(last.args[1]) % HoursPerDay < WeekStartHour
  /\ last.args[3] - last.args[2] = DaysPerWeek * HoursPerDay - 1

-----------------------------------------------------------------------------
(* SpecLockSeq: the picks of one user over three games whose dates stay as *)
(* created, one request after the other                                    *)

NextLockSeq ==
  \/ Tick
  \/ CreateLockGame(LockGames + 1)
  \/ SubmitLockPick(LockGames + 1)
  \/ DeleteLockGame(LockGames + 1)

SpecLockSeq == InitLock /\ [][NextLockSeq]_vars

\* C26: while no game changes its date and the requests come one after the
\* other, no user has locked picks on two games whose week windows are the
\* same
C26_SequentialOneLockPerWeek ==
  \A p, q \in picks :
    (/\ p.user_id = q.user_id
     /\ p.game_id # q.game_id
     /\ p.lock = TRUE
     /\ q.lock = TRUE
     /\ Exists(games, p.game_id)
     /\ Exists(games, q.game_id))
    => get_game_week_bounds(DateOf(games, p.game_id))
         # get_game_week_bounds(DateOf(games, q.game_id))

\* a lock = true was just accepted on a game of a week in which the user
\* has another pick, now without lock, while the user keeps a lock in
\* another week and a game of the user's picks has started
C26_Witness ==
  /\ last.op = "submit_pick"
  /\ last.status = 200
  /\ last.args[3] = Some(TRUE)
  /\ \E p, q, r \in picks :
       /\ p.user_id = last.args[1] /\ q.user_id = p.user_id /\ r.user_id = p.user_id
       /\ p.game_id = last.args[2] /\ p.lock = TRUE
       /\ q.game_id # p.game_id /\ q.lock = FALSE
       /\ SameWeek(DateOf(games, p.game_id), DateOf(games, q.game_id))
       /\ r.lock = TRUE
       /\ ~SameWeek(DateOf(games, p.game_id), DateOf(games, r.game_id))
  /\ \E g \in games : now >= g.game_date

-----------------------------------------------------------------------------
(* The log_requests middleware: a request is "idle" before it arrives,     *)
(* "try" from its admission to the end of the try block, and "finally"     *)
(* until the finally block has run                                         *)

max_concurrent_requests == 8
CACHE_ENABLED == FALSE

\* the capacity test with the limit itself let in
AdmitsAtLimit(active) == ~(active > max_concurrent_requests)

\* `if active_requests >= max_concurrent_requests: return 503`, negated
Admits(active) == ~(active >= max_concurrent_requests)

\* how the try block is left: a cached response, the response of
\* call_next, an exception about the connection pool, any other exception,
\* and the cancellation of the request at `await call_next`
TryExits ==
  {"response", "pool_exhausted", "exception", "cancelled"}
    \cup (IF CACHE_ENABLED THEN {"cache_hit"} ELSE {})

\* the status the middleware answers with; 0 when nothing is answered
ExitStatus(exit) ==
  CASE exit = "pool_exhausted" -> 503
    [] exit = "exception" -> 500
    [] exit = "cancelled" -> 0
    [] OTHER -> 200

MiddlewareFrame ==
  UNCHANGED <<now, games, nextGameId, picks, leaderboard, tiebreakers, nextTbId,
              tiebreaker_picks, txns, users, nextUserId>>

\* the `with queue_lock` block at the head of log_requests
Arrive(r) ==
  /\ requests[r] = "idle"
  /\ IF Admits(active_requests)
       THEN /\ active_requests' = active_requests + 1
            /\ requests' = [requests EXCEPT ![r] = "try"]
            /\ last' = [op |-> "log_requests", args |-> <<"admitted">>, status |-> 0]
       ELSE /\ UNCHANGED <<active_requests, requests>>
            /\ last' = [op |-> "log_requests", args |-> <<"rejected">>, status |-> 503]
  /\ MiddlewareFrame

\* the try block ends: by a return or by an exception
LeaveTry(r) ==
  /\ requests[r] = "try"
  /\ \E exit \in TryExits :
       last' = [op |-> "log_requests", args |-> <<exit>>, status |-> ExitStatus(exit)]
  /\ requests' = [requests EXCEPT ![r] = "finally"]
  /\ UNCHANGED active_requests
  /\ MiddlewareFrame

\* the finally block
Finally(r) ==
  /\ requests[r] = "finally"
  /\ active_requests' = active_requests - 1
  /\ requests' = [requests EXCEPT ![r] = "idle"]
  /\ last' = [op |-> "log_requests", args |-> <<"done">>, status |-> 0]
  /\ MiddlewareFrame

-----------------------------------------------------------------------------
(* SpecMiddleware: requests arrive at and leave the middleware in any order *)

NextMiddleware ==
  \/ \E r \in ReqIds : Arrive(r)
  \/ \E r \in ReqIds : LeaveTry(r)
  \/ \E r \in ReqIds : Finally(r)

SpecMiddleware == Init /\ [][NextMiddleware]_vars

\* the admitted requests that have not run their finally block
InFlightRequests == {r \in ReqIds : requests[r] # "idle"}

\* C29: active_requests is the number of admitted requests still in flight
\* and lies between 0 and max_concurrent_requests; a request that arrives at
\* the limit is answered 503 and leaves the counter as it was, and a request
\* leaving takes exactly one off the counter, however its try block ended
C29_ActiveRequestsCounts ==
  /\ [](/\ active_requests = Cardinality(InFlightRequests)
        /\ active_requests >= 0
        /\ active_requests <= max_concurrent_requests)
  /\ [][/\ (active_requests = max_concurrent_requests
            /\ \E r \in ReqIds : requests[r] = "idle" /\ requests'[r] = "idle"
            /\ last'.args = <<"rejected">>)
           => (last'.status = 503 /\ active_requests' = active_requests)
        /\ \A r \in ReqIds :
             (requests[r] # "idle" /\ requests'[r] = "idle")
               => active_requests' = active_requests - 1
        /\ (active_requests = max_concurrent_requests)
             => \A r \in ReqIds : requests[r] = "idle" => requests'[r] = "idle"]_vars

\* a request was just answered 503 while the counter is at the limit and
\* one of the admitted requests has left its try block by an exception
C29_Witness ==
  /\ last.op = "log_requests"
  /\ last.status = 503
  /\ last.args = <<"rejected">>
  /\ active_requests = max_concurrent_requests
  /\ \E r \in ReqIds : requests[r] = "finally"
  /\ \E r \in ReqIds : requests[r] = "try"

-----------------------------------------------------------------------------
(* Tokens: verify_token and get_current_user on a bearer token.  A token   *)
(* carries the sub claim it was signed with and the JWTError, if any, that *)
(* jwt.decode raises for it; the text of the error is a sequence of words  *)

NoError == <<>>
\* texts of the JWTError for a token past its exp claim: the text is the
\* library's, which is not part of the repository
ExpiredErrors == {<<"Signature", "has", "expired.">>, <<"token", "is", "expired">>}
\* text of the JWTError for a token with a wrong signature
SignatureError == <<"Signature", "verification", "failed.">>

\* `part in text` on sequences of words
Contains(text, part) ==
  \E i \in 0..(Len(text) - Len(part)) :
    \A j \in 1..Len(part) : text[i + j] = part[j]

\* the Optional[str] verify_token returns: Some(sub claim), None, or
\* Some("Token expired")
verify_token(token) ==
  IF token.error = NoError THEN token.sub
  ELSE IF Contains(token.error, <<"token", "is", "expired">>)
    THEN Some("Token expired")
  ELSE None

\* get_current_user on a token: the status and the users row it returns
get_current_user_of(us, token) ==
  LET username == verify_token(token)
      user == {u \in us : Some(u.username) = username}
  IN IF username = None THEN [status |-> 401, user |-> {}]
     ELSE IF user = {} THEN [status |-> 401, user |-> {}]
     ELSE [status |-> 200, user |-> user]

\* a request with a bearer token reaches get_current_user; the logged
\* arguments are whether jwt.decode found the token expired and the ids of
\* the user the request runs as
GetCurrentUser(token) ==
  /\ last' = [op |-> "get_current_user",
              args |-> <<token.error \in ExpiredErrors,
                         UserIds(get_current_user_of(users, token).user)>>,
              status |-> get_current_user_of(users, token).status]
  /\ UNCHANGED <<now, games, nextGameId, picks, leaderboard, tiebreakers, nextTbId,
                 tiebreaker_picks, txns, users, nextUserId, active_requests,
                 requests>>

-----------------------------------------------------------------------------
(* SpecToken: users register under any name and requests come with valid,  *)
(* expired and forged tokens                                               *)

TokenNames == {"cat", "Token expired"}
TokenSubs == {Some("ann"), Some("cat"), Some("Token expired"), None}
Tokens == [sub : TokenSubs, error : {NoError, SignatureError} \cup ExpiredErrors]

NextToken ==
  \/ \E n \in TokenNames : Register(n, MaxUsers + 1)
  \/ \E u \in 1..(MaxUsers + 1), rule \in TbPickUserRules : DeleteUser(u, rule)
  \/ \E token \in Tokens : GetCurrentUser(token)

SpecToken == Init /\ [][NextToken]_vars

====
